---- MODULE Spec2Model ----
(***************************************************************************)
(* Resource handlers of terraform-provider-tencentcloud:                   *)
(*   tencentcloud_clickhouse_account_permission   (kind "ck")              *)
(*   tencentcloud_monitor_tmp_scrape_job          (kind "sj")              *)
(*   tencentcloud_sqlserver_config_database_ct    (kind "ct")              *)
(*   tencentcloud_vpc_flow_log_config             (kind "fl")              *)
(* One resource-state handle d (identifier + attributes), the remote       *)
(* object it names, and a record op of the last handler invocation (what   *)
(* it was handed, what it returned, which remote calls it made).  Each     *)
(* handler is one action; the answers of the remote API are its inputs.    *)
(* Strings that take part in identifiers are sequences of characters, so   *)
(* that joining and splitting are computed.                                *)
(***************************************************************************)
EXTENDS Integers, Sequences, FiniteSets, TLC

VARIABLES kind, d, remote, op

vars == <<kind, d, remote, op>>

(***************************************************************************)
(* Bounds                                                                  *)
(***************************************************************************)
MaxIdLen == 2         \* longest identifier a state file or an import supplies
MaxAttempts == 2      \* most attempts that fit one retry time budget

(***************************************************************************)
(* Strings                                                                 *)
(***************************************************************************)
FILED_SP == "#"

Chars == {"a", FILED_SP}

StrsUpTo(n) == UNION {[1..k -> Chars] : k \in 0..n}

\* the values a configuration gives a required string attribute
FieldStrs == {<<"a">>, <<FILED_SP>>}

IdStrs == StrsUpTo(MaxIdLen) \ {<<>>}

\* strings.Split(s, FILED_SP): the components of s between separators;
\* the empty string has one (empty) component.
Split(s) ==
  LET F[i \in 0..Len(s)] ==
        IF i = 0 THEN << <<>> >>
        ELSE IF s[i] = FILED_SP THEN Append(F[i-1], <<>>)
        ELSE [F[i-1] EXCEPT ![Len(F[i-1])] = Append(@, s[i])]
  IN F[Len(s)]

\* strings.Join(parts, FILED_SP)
Join(parts) ==
  LET F[i \in 0..Len(parts)] ==
        IF i = 0 THEN <<>>
        ELSE IF i = 1 THEN parts[1]
        ELSE F[i-1] \o <<FILED_SP>> \o parts[i]
  IN F[Len(parts)]


(***************************************************************************)
(* Errors and the bounded retry wrapper                                    *)
(***************************************************************************)
Nil == "nil"
Panic == "panic"

\* error codes of the remote API; retryError retries the first two
RetryableErrs == {"RequestLimitExceeded", "ResourceInUse"}
ApiErrs == RetryableErrs \cup {"InvalidParameter"}

\* what one attempt hands back to resource.Retry
Done == [kind |-> "nil", err |-> Nil]
RetryableError(e) == [kind |-> "retryable", err |-> e]
NonRetryableError(e) == [kind |-> "fatal", err |-> e]

retryError(e) ==
  IF e \in RetryableErrs THEN RetryableError(e) ELSE NonRetryableError(e)

\* resource.Retry(timeout, f): rets[k] is what the k-th call of f returns and
\* Len(rets) the number of attempts the time budget has room for.  The
\* result: how many attempts were made and the error returned.
Retry(rets) ==
  LET R[k \in 1..Len(rets)] ==
        IF rets[k].kind = "nil" THEN [n |-> k, err |-> Nil]
        ELSE IF rets[k].kind = "fatal" THEN [n |-> k, err |-> rets[k].err]
        ELSE IF k = Len(rets) THEN [n |-> k, err |-> rets[k].err]
        ELSE R[k+1]
  IN R[1]

\* writeAttempt with every API error returned as non-retryable
writeAttemptNoRetry(out) == IF out # "ok" THEN NonRetryableError(out) ELSE Done

\* writeAttempt that asks for another attempt after a success too
writeAttemptAgainAfterOk(out) ==
  IF out # "ok" THEN retryError(out) ELSE RetryableError("ok")

\* the closure of a retry-wrapped write: an API error goes through
\* retryError, success ends the loop
writeAttempt(out) == IF out # "ok" THEN retryError(out) ELSE Done

RetryWrite(outs) == Retry([k \in 1..Len(outs) |-> writeAttempt(outs[k])])

\* the answers of the remote API to the attempts of one write loop; the
\* answers to attempts the loop never makes are left at "ok"
WriteOuts == {"ok"} \cup ApiErrs

WriteAttempts ==
  {o \in [1..MaxAttempts -> WriteOuts] :
     \A k \in 1..MaxAttempts : k > RetryWrite(o).n => o[k] = "ok"}

AllOk == [k \in 1..MaxAttempts |-> "ok"]

\* the answer of a service-layer query: a result or an error
RdOuts == {"ok", "InternalError"}

\* the remote calls one retry loop made: its first n attempts
CallLog(api, outs, n) == [k \in 1..n |-> [api |-> api, res |-> outs[k]]]

(***************************************************************************)
(* Resource data                                                           *)
(***************************************************************************)
None == [exists |-> FALSE]

\* d.HasChange(key): the prior state and the planned value differ
HasChange(old, new, key) == old[key] # new[key]

\* what a handler leaves behind: resource data, remote state, the error it
\* returns, the remote calls it made and the values it passed to d.SetId
Res(dd, rem, err, calls, setIds) ==
  [d |-> dd, remote |-> rem, err |-> err, calls |-> calls, setIds |-> setIds]

\* a handler that ends by calling Read: Read's calls and SetIds follow its own
ThenRead(r, calls, setIds) ==
  Res(r.d, r.remote, r.err, calls \o r.calls, setIds \o r.setIds)

(***************************************************************************)
(* tencentcloud_clickhouse_account_permission                              *)
(***************************************************************************)
CkZero == [instance_id |-> <<>>, cluster |-> <<>>, user_name |-> <<>>,
           all_database |-> FALSE, global_privileges |-> {},
           database_privilege_list |-> <<>>]

\* the configurations of the identifying fields, with no privileges listed
CkConfigs == [instance_id : FieldStrs, cluster : FieldStrs, user_name : FieldStrs,
              all_database : {FALSE}, global_privileges : {{}},
              database_privilege_list : {<<>>}]

\* values handed to d.Set for a nested attribute: a block (a Go map) with
\* the keys it has, or a list of values
Block(m) == [tag |-> "map", m |-> m]
List(l) == [tag |-> "list", l |-> l]

\* m[k] = v added to a Go map
Put(m, k, v) == [x \in (DOMAIN m) \cup {k} |-> IF x = k THEN v ELSE m[x]]

\* m with m[k] = v added when the response field f of x is not nil
PutUnlessNil(m, k, x, f, v) == IF f \in x.absent THEN m ELSE Put(m, k, v)

\* the value of key k of a block, the zero value z when the block lacks it
KeyOr(m, k, z) == IF k \in DOMAIN m THEN m[k] ELSE z

\* d.Set of a list of blocks: the SDK decodes every element into a block and
\* fails when one is no map; then nothing is written
IsBlockList(v) == v.tag = "list" /\ \A k \in 1..Len(v.l) : v.l[k].tag = "map"

AcceptsDatabasePrivilegeList(v) ==
  /\ IsBlockList(v)
  /\ \A k \in 1..Len(v.l) :
       "table_privilege_list" \in DOMAIN v.l[k].m
         => IsBlockList(v.l[k].m["table_privilege_list"])

\* the attribute value the SDK stores for an accepted list
StoredTableList(v) ==
  [k \in 1..Len(v.l) |->
     [table_name |-> KeyOr(v.l[k].m, "table_name", ""),
      table_privileges |-> KeyOr(v.l[k].m, "table_privileges", {})]]

StoredDatabasePrivilegeList(v) ==
  [k \in 1..Len(v.l) |->
     [database_name |-> KeyOr(v.l[k].m, "database_name", ""),
      database_privileges |-> KeyOr(v.l[k].m, "database_privileges", {}),
      table_privilege_list |->
        IF "table_privilege_list" \in DOMAIN v.l[k].m
        THEN StoredTableList(v.l[k].m["table_privilege_list"]) ELSE <<>>]]

\* _ = d.Set("database_privilege_list", v), the error dropped
SetDatabasePrivilegeList(attrs, v) ==
  IF AcceptsDatabasePrivilegeList(v)
  THEN [attrs EXCEPT !.database_privilege_list = StoredDatabasePrivilegeList(v)]
  ELSE attrs

\* CdwchService.DescribeCdwchAccountPermission(instanceId, cluster, userName)
DescribeCdwchAccountPermission(rem, i, c, u) ==
  IF rem.exists /\ rem.InstanceId = i /\ rem.Cluster = c /\ rem.UserName = u
  THEN rem ELSE None

\* clickhouse.TablePrivilegeInfo / DatabasePrivilegeInfo built from a
\* configuration block: a slice nothing was appended to stays nil
TablePrivilegeInfo(t) ==
  [TableName |-> t.table_name, TablePrivileges |-> t.table_privileges,
   absent |-> IF t.table_privileges = {} THEN {"TablePrivileges"} ELSE {}]

DatabasePrivilegeInfo(b) ==
  [DatabaseName |-> b.database_name,
   DatabasePrivileges |-> b.database_privileges,
   TablePrivilegeList |-> [k \in 1..Len(b.table_privilege_list) |->
                             TablePrivilegeInfo(b.table_privilege_list[k])],
   absent |-> (IF b.database_privileges = {} THEN {"DatabasePrivileges"} ELSE {})
              \cup (IF b.table_privilege_list = <<>> THEN {"TablePrivilegeList"} ELSE {})]

\* the ModifyUserNewPrivilege request; withGlobal / withList tell whether
\* the handler fills GlobalPrivileges / DatabasePrivilegeList at all
CkRequest(instanceId, cluster, userName, attrs, withGlobal, withList) ==
  LET global == IF withGlobal THEN attrs.global_privileges ELSE {}
      list == IF withList THEN attrs.database_privilege_list ELSE <<>>
  IN [InstanceId |-> instanceId, Cluster |-> cluster, UserName |-> userName,
      AllDatabase |-> attrs.all_database,
      GlobalPrivileges |-> global,
      DatabasePrivilegeList |-> [k \in 1..Len(list) |-> DatabasePrivilegeInfo(list[k])],
      absent |-> (IF global = {} THEN {"GlobalPrivileges"} ELSE {})
                 \cup (IF list = <<>> THEN {"DatabasePrivilegeList"} ELSE {})]

\* the remote effect of a successful ModifyUserNewPrivilege: the account's
\* permission is what the request says
ModifyUserNewPrivilege(rem, req) ==
  [exists |-> TRUE, InstanceId |-> req.InstanceId, Cluster |-> req.Cluster,
   UserName |-> req.UserName, AllDatabase |-> req.AllDatabase,
   GlobalPrivileges |-> req.GlobalPrivileges,
   DatabasePrivilegeList |-> req.DatabasePrivilegeList,
   absent |-> req.absent]

\* the blocks Read builds from the response (lines 264-301)
tablePrivilegeListMap(t) ==
  Block(PutUnlessNil(PutUnlessNil(<<>>, "table_name", t, "TableName", t.TableName),
                     "table_privileges", t, "TablePrivileges", t.TablePrivileges))

tablePrivilegeListList(db) ==
  List([k \in 1..Len(db.TablePrivilegeList) |->
          tablePrivilegeListMap(db.TablePrivilegeList[k])])

\* table_privilege_list is given a one-element list that holds the list of
\* table blocks: []interface{}{tablePrivilegeListList}
databasePrivilegeListMap(db) ==
  Block(PutUnlessNil(
          PutUnlessNil(
            PutUnlessNil(<<>>, "database_name", db, "DatabaseName", db.DatabaseName),
            "database_privileges", db, "DatabasePrivileges", db.DatabasePrivileges),
          "table_privilege_list", db, "TablePrivilegeList",
          List(<<tablePrivilegeListList(db)>>)))

databasePrivilegeListList(ap) ==
  List([k \in 1..Len(ap.DatabasePrivilegeList) |->
          databasePrivilegeListMap(ap.DatabasePrivilegeList[k])])

\* the d.Set calls of Read (lines 244-301): each under its nil check
CkReadAttrs(attrs, ap) ==
  LET a1 == IF "InstanceId" \in ap.absent THEN attrs
            ELSE [attrs EXCEPT !.instance_id = ap.InstanceId]
      a2 == IF "Cluster" \in ap.absent THEN a1 ELSE [a1 EXCEPT !.cluster = ap.Cluster]
      a3 == IF "UserName" \in ap.absent THEN a2
            ELSE [a2 EXCEPT !.user_name = ap.UserName]
      a4 == IF "AllDatabase" \in ap.absent THEN a3
            ELSE [a3 EXCEPT !.all_database = ap.AllDatabase]
      a5 == IF "GlobalPrivileges" \in ap.absent THEN a4
            ELSE [a4 EXCEPT !.global_privileges = ap.GlobalPrivileges]
  IN IF "DatabasePrivilegeList" \in ap.absent THEN a5
     ELSE SetDatabasePrivilegeList(a5, databasePrivilegeListList(ap))

resourceTencentCloudClickhouseAccountPermissionRead(dd, rem, rd) ==
  LET idSplit == Split(dd.id)
      call == <<[api |-> "DescribeCdwchAccountPermission", res |-> rd]>>
  IN IF Len(idSplit) # 3 THEN Res(dd, rem, "id is broken", <<>>, <<>>)
     ELSE IF rd # "ok" THEN Res(dd, rem, rd, call, <<>>)
     ELSE LET ap == DescribeCdwchAccountPermission(rem, idSplit[1], idSplit[2], idSplit[3])
          IN IF ~ap.exists
             THEN Res([dd EXCEPT !.id = <<>>], rem, Nil, call, << <<>> >>)
             ELSE Res([dd EXCEPT !.attrs = CkReadAttrs(dd.attrs, ap)],
                      rem, Nil, call, <<>>)

\* CkCreateId with cluster and user name in the order Create declares them
CkCreateIdSwapped(instanceId, cluster, userName) ==
  instanceId \o <<FILED_SP>> \o userName \o <<FILED_SP>> \o cluster

CkCreateId(instanceId, cluster, userName) ==
  instanceId \o <<FILED_SP>> \o cluster \o <<FILED_SP>> \o userName

\* Create that stores the identifier before the write and keeps it when
\* the write fails
CkCreateSetIdFirst(dd, rem, outs, rd) ==
  LET instanceId == dd.attrs.instance_id
      userName == dd.attrs.user_name
      cluster == dd.attrs.cluster
      request == CkRequest(instanceId, cluster, userName, dd.attrs, TRUE, TRUE)
      id == CkCreateId(instanceId, cluster, userName)
      r == RetryWrite(outs)
      calls == CallLog("ModifyUserNewPrivilege", outs, r.n)
  IN IF r.err # Nil THEN Res([dd EXCEPT !.id = id], rem, r.err, calls, <<id>>)
     ELSE ThenRead(resourceTencentCloudClickhouseAccountPermissionRead(
                     [dd EXCEPT !.id = id], ModifyUserNewPrivilege(rem, request), rd),
                   calls, <<id>>)

resourceTencentCloudClickhouseAccountPermissionCreate(dd, rem, outs, rd) ==
  LET instanceId == dd.attrs.instance_id
      userName == dd.attrs.user_name
      cluster == dd.attrs.cluster
      request == CkRequest(instanceId, cluster, userName, dd.attrs, TRUE, TRUE)
      r == RetryWrite(outs)
      calls == CallLog("ModifyUserNewPrivilege", outs, r.n)
  IN IF r.err # Nil THEN Res(dd, rem, r.err, calls, <<>>)
     ELSE LET id == CkCreateId(instanceId, cluster, userName)
          IN ThenRead(resourceTencentCloudClickhouseAccountPermissionRead(
                        [dd EXCEPT !.id = id], ModifyUserNewPrivilege(rem, request), rd),
                      calls, <<id>>)

CkImmutableArgs == {"instance_id", "cluster", "user_name"}

\* the calls of a retry loop that sends the same request at every attempt
CallLogOf(api, outs, n, request) ==
  [k \in 1..n |-> [api |-> api, res |-> outs[k], req |-> request]]

\* Update that sends both privilege attributes whether they changed or not
CkUpdateResendsAll(dd, old, rem, outs, rd) ==
  LET idSplit == Split(dd.id)
  IN IF Len(idSplit) # 3 THEN Res(dd, rem, "id is broken", <<>>, <<>>)
     ELSE IF \E v \in CkImmutableArgs : HasChange(old, dd.attrs, v)
     THEN Res(dd, rem, "cannot be changed", <<>>, <<>>)
     ELSE LET request == CkRequest(idSplit[1], idSplit[2], idSplit[3], dd.attrs,
                                   TRUE, TRUE)
              r == RetryWrite(outs)
              calls == CallLogOf("ModifyUserNewPrivilege", outs, r.n, request)
          IN IF r.err # Nil THEN Res(dd, rem, r.err, calls, <<>>)
             ELSE ThenRead(resourceTencentCloudClickhouseAccountPermissionRead(
                             dd, ModifyUserNewPrivilege(rem, request), rd),
                           calls, <<>>)

resourceTencentCloudClickhouseAccountPermissionUpdate(dd, old, rem, outs, rd) ==
  LET idSplit == Split(dd.id)
  IN IF Len(idSplit) # 3 THEN Res(dd, rem, "id is broken", <<>>, <<>>)
     ELSE IF \E v \in CkImmutableArgs : HasChange(old, dd.attrs, v)
     THEN Res(dd, rem, "cannot be changed", <<>>, <<>>)
     ELSE LET request == CkRequest(idSplit[1], idSplit[2], idSplit[3], dd.attrs,
                                   HasChange(old, dd.attrs, "global_privileges"),
                                   HasChange(old, dd.attrs, "database_privilege_list"))
              r == RetryWrite(outs)
              calls == CallLogOf("ModifyUserNewPrivilege", outs, r.n, request)
          IN IF r.err # Nil THEN Res(dd, rem, r.err, calls, <<>>)
             ELSE ThenRead(resourceTencentCloudClickhouseAccountPermissionRead(
                             dd, ModifyUserNewPrivilege(rem, request), rd),
                           calls, <<>>)

\* CdwchService.DescribeCkSqlApis(..., DESCRIBE_CK_SQL_APIS_REVOKE_CLUSTER_USER):
\* on success the user's privileges are revoked
DescribeCkSqlApis(rem, i, c, u) ==
  IF DescribeCdwchAccountPermission(rem, i, c, u).exists THEN None ELSE rem

\* Delete that only rejects an identifier of fewer than three components
CkDeleteAtLeastThree(dd, rem, rd) ==
  LET idSplit == Split(dd.id)
      call == <<[api |-> "DescribeCkSqlApis", res |-> rd]>>
  IN IF Len(idSplit) < 3 THEN Res(dd, rem, "id is broken", <<>>, <<>>)
     ELSE IF rd # "ok" THEN Res(dd, rem, rd, call, <<>>)
     ELSE Res(dd, DescribeCkSqlApis(rem, idSplit[1], idSplit[2], idSplit[3]),
              Nil, call, <<>>)

resourceTencentCloudClickhouseAccountPermissionDelete(dd, rem, rd) ==
  LET idSplit == Split(dd.id)
      call == <<[api |-> "DescribeCkSqlApis", res |-> rd]>>
  IN IF Len(idSplit) # 3 THEN Res(dd, rem, "id is broken", <<>>, <<>>)
     ELSE IF rd # "ok" THEN Res(dd, rem, rd, call, <<>>)
     ELSE Res(dd, DescribeCkSqlApis(rem, idSplit[1], idSplit[2], idSplit[3]),
              Nil, call, <<>>)

(***************************************************************************)
(* tencentcloud_monitor_tmp_scrape_job                                     *)
(***************************************************************************)
SjZero == [instance_id |-> <<>>, agent_id |-> <<>>, config |-> ""]

SjConfigs == [instance_id : FieldStrs, agent_id : FieldStrs, config : {"c1", "c2"}]

\* the job id the remote API gives a new scrape job: unlike every
\* instance_id and agent_id of SjConfigs, so that the components of an
\* identifier can be told apart
NewJobId == <<"a", "a">>

SjMatches(rem, ids) ==
  rem.exists /\ rem.JobId = ids[1] /\ rem.InstanceId = ids[2] /\ rem.AgentId = ids[3]

\* MonitorService.DescribeMonitorTmpScrapeJob(tmpScrapeJobId): the identifier
\* codec splits the identifier and asserts three components, then queries
DescribeMonitorTmpScrapeJob(rem, tmpScrapeJobId, rd) ==
  LET ids == Split(tmpScrapeJobId)
      call == <<[api |-> "DescribePrometheusScrapeJobs", res |-> rd]>>
  IN IF Len(ids) # 3 THEN [err |-> "id is broken", job |-> None, calls |-> <<>>]
     ELSE IF rd # "ok" THEN [err |-> rd, job |-> None, calls |-> call]
     ELSE [err |-> Nil, job |-> IF SjMatches(rem, ids) THEN rem ELSE None,
           calls |-> call]

\* MonitorService.DeleteMonitorTmpScrapeJobById(tmpScrapeJobId)
DeleteMonitorTmpScrapeJobById(rem, tmpScrapeJobId, rd) ==
  LET ids == Split(tmpScrapeJobId)
      call == <<[api |-> "DeletePrometheusScrapeJobs", res |-> rd]>>
  IN IF Len(ids) # 3 THEN [err |-> "id is broken", remote |-> rem, calls |-> <<>>]
     ELSE IF rd # "ok" THEN [err |-> rd, remote |-> rem, calls |-> call]
     ELSE [err |-> Nil, remote |-> IF SjMatches(rem, ids) THEN None ELSE rem,
           calls |-> call]

\* the remote effects of the successful writes
CreatePrometheusScrapeJob(rem, req) ==
  [exists |-> TRUE, JobId |-> NewJobId, InstanceId |-> req.InstanceId,
   AgentId |-> req.AgentId, Config |-> req.Config, absent |-> {}]

UpdatePrometheusScrapeJob(rem, req) ==
  IF SjMatches(rem, <<req.JobId, req.InstanceId, req.AgentId>>) /\ req.Config # ""
  THEN [rem EXCEPT !.Config = req.Config] ELSE rem

\* Read that takes instance_id from the first component of the identifier
SjReadFirstComponent(dd, rem, rd) ==
  LET tmpScrapeJobId == dd.id
      q == DescribeMonitorTmpScrapeJob(rem, tmpScrapeJobId, rd)
  IN IF q.err # Nil THEN Res(dd, rem, q.err, q.calls, <<>>)
     ELSE IF ~q.job.exists
     THEN Res([dd EXCEPT !.id = <<>>], rem, "does not exist", q.calls, << <<>> >>)
     ELSE IF Len(Split(tmpScrapeJobId)) < 2 THEN Res(dd, rem, Panic, q.calls, <<>>)
     ELSE Res([dd EXCEPT !.attrs =
                 [instance_id |-> Split(tmpScrapeJobId)[1],
                  agent_id |-> IF "AgentId" \in q.job.absent THEN dd.attrs.agent_id
                               ELSE q.job.AgentId,
                  config |-> IF "Config" \in q.job.absent THEN dd.attrs.config
                             ELSE q.job.Config]],
              rem, Nil, q.calls, <<>>)

resourceTencentCloudMonitorTmpScrapeJobRead(dd, rem, rd) ==
  LET tmpScrapeJobId == dd.id
      q == DescribeMonitorTmpScrapeJob(rem, tmpScrapeJobId, rd)
  IN IF q.err # Nil THEN Res(dd, rem, q.err, q.calls, <<>>)
     ELSE IF ~q.job.exists
     THEN Res([dd EXCEPT !.id = <<>>], rem, "does not exist", q.calls, << <<>> >>)
     ELSE IF Len(Split(tmpScrapeJobId)) < 2 THEN Res(dd, rem, Panic, q.calls, <<>>)
     ELSE Res([dd EXCEPT !.attrs =
                 [instance_id |-> Split(tmpScrapeJobId)[2],
                  agent_id |-> IF "AgentId" \in q.job.absent THEN dd.attrs.agent_id
                               ELSE q.job.AgentId,
                  config |-> IF "Config" \in q.job.absent THEN dd.attrs.config
                             ELSE q.job.Config]],
              rem, Nil, q.calls, <<>>)

resourceTencentCloudMonitorTmpScrapeJobCreate(dd, rem, outs, rd) ==
  LET instanceId == dd.attrs.instance_id
      agentId == dd.attrs.agent_id
      request == [InstanceId |-> instanceId, AgentId |-> agentId,
                  Config |-> dd.attrs.config]
      r == RetryWrite(outs)
      calls == CallLog("CreatePrometheusScrapeJob", outs, r.n)
  IN IF r.err # Nil THEN Res(dd, rem, r.err, calls, <<>>)
     ELSE LET response == CreatePrometheusScrapeJob(rem, request)
              tmpScrapeJobId == response.JobId
              id == Join(<<tmpScrapeJobId, instanceId, agentId>>)
          IN ThenRead(resourceTencentCloudMonitorTmpScrapeJobRead(
                        [dd EXCEPT !.id = id], response, rd),
                      calls, <<id>>)

\* ids[1], ids[2] of the Go slice are read before anything is checked: an
\* identifier of fewer than three components is an index out of range
resourceTencentCloudMonitorTmpScrapeJobUpdate(dd, old, rem, outs, rd) ==
  LET ids == Split(dd.id)
  IN IF Len(ids) < 3 THEN Res(dd, rem, Panic, <<>>, <<>>)
     ELSE IF HasChange(old, dd.attrs, "instance_id")
     THEN Res(dd, rem, "instance_id do not support change now.", <<>>, <<>>)
     ELSE IF HasChange(old, dd.attrs, "agent_id")
     THEN Res(dd, rem, "agent_id do not support change now.", <<>>, <<>>)
     ELSE LET request == [JobId |-> ids[1], InstanceId |-> ids[2], AgentId |-> ids[3],
                          Config |-> IF HasChange(old, dd.attrs, "config")
                                     THEN dd.attrs.config ELSE ""]
              r == RetryWrite(outs)
              calls == CallLog("UpdatePrometheusScrapeJob", outs, r.n)
          IN IF r.err # Nil THEN Res(dd, rem, r.err, calls, <<>>)
             ELSE ThenRead(resourceTencentCloudMonitorTmpScrapeJobRead(
                             dd, UpdatePrometheusScrapeJob(rem, request), rd),
                           calls, <<>>)

resourceTencentCloudMonitorTmpScrapeJobDelete(dd, rem, rd) ==
  LET q == DeleteMonitorTmpScrapeJobById(rem, dd.id, rd)
  IN Res(dd, q.remote, q.err, q.calls, <<>>)

(***************************************************************************)
(* tencentcloud_sqlserver_config_database_ct                               *)
(***************************************************************************)
SQLSERVER_TASK_SUCCESS == 0
SQLSERVER_TASK_RUNNING == 1
SQLSERVER_TASK_FAIL == 2

CtZero == [instance_id |-> <<>>, db_name |-> <<>>, modify_type |-> "",
           change_retention_day |-> 0]

CtConfigs == [instance_id : FieldStrs, db_name : FieldStrs,
              modify_type : {"enable", "disable"}, change_retention_day : {7}]

Digits == <<"0", "1", "2", "3", "4", "5", "6", "7", "8", "9">>

DigitOf(c) == (CHOOSE k \in 1..10 : Digits[k] = c) - 1

\* strconv.Atoi with its error dropped: 0 for anything that is no number
Atoi(s) ==
  LET V[i \in 0..Len(s)] == IF i = 0 THEN 0 ELSE 10 * V[i-1] + DigitOf(s[i])
  IN IF s = <<>> \/ \E i \in 1..Len(s) : \A k \in 1..10 : Digits[k] # s[i]
     THEN 0 ELSE V[Len(s)]

\* the decimal digits of a natural number
Itoa(n) ==
  LET D[m \in 0..n] == IF m < 10 THEN <<Digits[m + 1]>>
                       ELSE Append(D[m \div 10], Digits[(m % 10) + 1])
  IN D[n]

\* SqlserverService.DescribeSqlserverConfigDatabaseCTById(instanceId): the
\* databases of the instance, nil when there is none to list
DescribeSqlserverConfigDatabaseCTById(rem, instanceId) ==
  IF rem.exists /\ rem.InstanceId = instanceId
  THEN [isNil |-> FALSE, items |-> <<rem>>]
  ELSE [isNil |-> TRUE, items |-> <<>>]

\* the remote effect of a ModifyDatabaseCT flow that ended in success
ModifyDatabaseCT(rem, req) ==
  IF rem.exists /\ rem.InstanceId = req.InstanceId /\ rem.Name = req.DBNames[1]
  THEN [rem EXCEPT !.RetentionPeriod =
          IF req.ModifyType = "enable" THEN Itoa(req.ChangeRetentionDay) ELSE <<"0">>]
  ELSE rem

resourceTencentCloudSqlserverConfigDatabaseCTRead(dd, rem, rd) ==
  LET idSplit == Split(dd.id)
      call == <<[api |-> "DescribeDatabasesNormal", res |-> rd]>>
  IN IF Len(idSplit) # 2 THEN Res(dd, rem, "id is broken", <<>>, <<>>)
     ELSE IF rd # "ok" THEN Res(dd, rem, rd, call, <<>>)
     ELSE LET instanceId == idSplit[1]
              dbName == idSplit[2]
              configDatabaseCT == DescribeSqlserverConfigDatabaseCTById(rem, instanceId)
              items == configDatabaseCT.items
              hits == {k \in 1..Len(items) : items[k].Name = dbName}
              found == hits # {}
              i == items[CHOOSE k \in hits : \A j \in hits : k <= j]
              modifyType == IF ~found THEN ""
                            ELSE IF i.IsDbChainingOn = "0" THEN "disable" ELSE "enable"
              Name == IF found THEN i.Name ELSE <<>>
              retentionPeriod == IF found THEN i.RetentionPeriod ELSE <<>>
          IN IF configDatabaseCT.isNil
             THEN Res([dd EXCEPT !.id = <<>>], rem, Nil, call, << <<>> >>)
             ELSE Res([dd EXCEPT !.attrs = [instance_id |-> instanceId,
                                            db_name |-> Name,
                                            modify_type |-> modifyType,
                                            change_retention_day |-> Atoi(retentionPeriod)]],
                      rem, Nil, call, <<>>)

\* the API errors drawn for the two loops of this Update: one that
\* retryError retries and one that it does not
CtApiErrs == {"RequestLimitExceeded", "InvalidParameter"}

\* the answers to ModifyDatabaseCT: success, success with a nil result, errors
ModifyOuts == {"ok", "nilresult"} \cup CtApiErrs

modifyAttempt(out) ==
  IF out \in ApiErrs THEN retryError(out)
  ELSE IF out = "nilresult"
  THEN NonRetryableError("sqlserver configDatabaseCT not exists")
  ELSE Done

\* the answers to DescribeFlowStatus: a status code or an error
PollOuts == {"status0", "status1", "status2", "status3"} \cup CtApiErrs

StatusOf(out) ==
  CASE out = "status0" -> 0 [] out = "status1" -> 1
    [] out = "status2" -> 2 [] out = "status3" -> 3

\* pollAttempt with the fail status retried like the running status
pollAttemptFailRetried(out) ==
  IF out \in ApiErrs THEN retryError(out)
  ELSE IF StatusOf(out) = SQLSERVER_TASK_SUCCESS THEN Done
  ELSE IF StatusOf(out) \in {SQLSERVER_TASK_RUNNING, SQLSERVER_TASK_FAIL}
  THEN RetryableError("sqlserver configDatabaseCT status is running")
  ELSE NonRetryableError("sqlserver configDatabaseCT status illegal")

pollAttempt(out) ==
  IF out \in ApiErrs THEN retryError(out)
  ELSE IF StatusOf(out) = SQLSERVER_TASK_SUCCESS THEN Done
  ELSE IF StatusOf(out) = SQLSERVER_TASK_RUNNING
  THEN RetryableError("sqlserver configDatabaseCT status is running")
  ELSE IF StatusOf(out) = SQLSERVER_TASK_FAIL
  THEN NonRetryableError("sqlserver configDatabaseCT status is fail")
  ELSE NonRetryableError("sqlserver configDatabaseCT status illegal")

RetryModify(outs) == Retry([k \in 1..Len(outs) |-> modifyAttempt(outs[k])])

RetryPoll(pouts) == Retry([k \in 1..Len(pouts) |-> pollAttempt(pouts[k])])

ModifyAttempts ==
  {o \in [1..MaxAttempts -> ModifyOuts] :
     \A k \in 1..MaxAttempts : k > RetryModify(o).n => o[k] = "ok"}

PollAttempts ==
  {o \in [1..MaxAttempts -> PollOuts] :
     \A k \in 1..MaxAttempts : k > RetryPoll(o).n => o[k] = "status0"}

AllSuccess == [k \in 1..MaxAttempts |-> "status0"]

\* the flow id in the response of the k-th ModifyDatabaseCT request of an
\* operation: the remote API numbers the flows it starts
FlowIdOf(k) == k

\* the ModifyDatabaseCT attempts with the flow id each response carried
\* (none, written 0, when the request failed)
ModifyLog(outs, n) ==
  [k \in 1..n |-> [api |-> "ModifyDatabaseCT", res |-> outs[k],
                   flow |-> IF outs[k] = "ok" THEN FlowIdOf(k) ELSE 0]]

\* the polls of flow flowId
PollLog(pouts, n, flowId) ==
  [k \in 1..n |-> [api |-> "DescribeFlowStatus", res |-> pouts[k], flow |-> flowId]]

\* Update that polls before it takes the flow id from the response
CtUpdatePollsUnsetFlow(dd, rem, outs, pouts, rd) ==
  LET idSplit == Split(dd.id)
  IN IF Len(idSplit) # 2 THEN Res(dd, rem, "id is broken", <<>>, <<>>)
     ELSE LET instanceId == idSplit[1]
              dbName == idSplit[2]
              request == [ModifyType |-> dd.attrs.modify_type,
                          ChangeRetentionDay |-> dd.attrs.change_retention_day,
                          InstanceId |-> instanceId, DBNames |-> <<dbName>>]
              r == RetryModify(outs)
              calls == ModifyLog(outs, r.n)
              p == RetryPoll(pouts)
              pcalls == calls \o PollLog(pouts, p.n, 0)
          IN IF r.err # Nil THEN Res(dd, rem, r.err, calls, <<>>)
             ELSE IF p.err # Nil THEN Res(dd, rem, p.err, pcalls, <<>>)
             ELSE ThenRead(resourceTencentCloudSqlserverConfigDatabaseCTRead(
                             dd, ModifyDatabaseCT(rem, request), rd),
                           pcalls, <<>>)

resourceTencentCloudSqlserverConfigDatabaseCTUpdate(dd, rem, outs, pouts, rd) ==
  LET idSplit == Split(dd.id)
  IN IF Len(idSplit) # 2 THEN Res(dd, rem, "id is broken", <<>>, <<>>)
     ELSE LET instanceId == idSplit[1]
              dbName == idSplit[2]
              request == [ModifyType |-> dd.attrs.modify_type,
                          ChangeRetentionDay |-> dd.attrs.change_retention_day,
                          InstanceId |-> instanceId, DBNames |-> <<dbName>>]
              r == RetryModify(outs)
              calls == ModifyLog(outs, r.n)
              flowId == FlowIdOf(r.n)
              p == RetryPoll(pouts)
              pcalls == calls \o PollLog(pouts, p.n, flowId)
          IN IF r.err # Nil THEN Res(dd, rem, r.err, calls, <<>>)
             ELSE IF p.err # Nil THEN Res(dd, rem, p.err, pcalls, <<>>)
             ELSE ThenRead(resourceTencentCloudSqlserverConfigDatabaseCTRead(
                             dd, ModifyDatabaseCT(rem, request), rd),
                           pcalls, <<>>)

resourceTencentCloudSqlserverConfigDatabaseCTCreate(dd, rem, outs, pouts, rd) ==
  LET instanceId == dd.attrs.instance_id
      dbName == dd.attrs.db_name
      id == Join(<<instanceId, dbName>>)
  IN ThenRead(resourceTencentCloudSqlserverConfigDatabaseCTUpdate(
                [dd EXCEPT !.id = id], rem, outs, pouts, rd),
              <<>>, <<id>>)

resourceTencentCloudSqlserverConfigDatabaseCTDelete(dd, rem) ==
  Res(dd, rem, Nil, <<>>, <<>>)

(***************************************************************************)
(* tencentcloud_vpc_flow_log_config                                        *)
(***************************************************************************)
FlZero == [flow_log_id |-> <<>>, enable |-> FALSE]

\* flow_log_id is required, but the empty string is a value a configuration
\* can give it
FlConfigs == [flow_log_id : FieldStrs \cup {<<>>}, enable : BOOLEAN]

\* VpcService.DescribeFlowLogs(request): the flow logs with the asked id
DescribeFlowLogs(rem, flowLogId) ==
  IF rem.exists /\ rem.FlowLogId = flowLogId THEN <<rem>> ELSE <<>>

\* the remote effects of successful EnableFlowLogs / DisableFlowLogs
EnableFlowLogs(rem, flowLogId) ==
  IF rem.exists /\ rem.FlowLogId = flowLogId THEN [rem EXCEPT !.Enable = TRUE] ELSE rem

DisableFlowLogs(rem, flowLogId) ==
  IF rem.exists /\ rem.FlowLogId = flowLogId THEN [rem EXCEPT !.Enable = FALSE] ELSE rem

\* Read that reports a missing flow log as an error
FlReadMissingIsError(dd, rem, rd) ==
  LET flowLogId == dd.id
      call == <<[api |-> "DescribeFlowLogs", res |-> rd]>>
      flowLogs == DescribeFlowLogs(rem, flowLogId)
  IN IF rd # "ok" THEN Res(dd, rem, rd, call, <<>>)
     ELSE IF Len(flowLogs) < 1
     THEN Res([dd EXCEPT !.id = <<>>], rem, "does not exist", call, << <<>> >>)
     ELSE Res([dd EXCEPT !.attrs =
                 [flow_log_id |-> flowLogId,
                  enable |-> IF "Enable" \in flowLogs[1].absent THEN dd.attrs.enable
                             ELSE flowLogs[1].Enable]],
              rem, Nil, call, <<>>)

\* Read that writes false for an Enable the response leaves nil
FlReadDefaultsEnable(dd, rem, rd) ==
  LET flowLogId == dd.id
      call == <<[api |-> "DescribeFlowLogs", res |-> rd]>>
      flowLogs == DescribeFlowLogs(rem, flowLogId)
  IN IF rd # "ok" THEN Res(dd, rem, rd, call, <<>>)
     ELSE IF Len(flowLogs) < 1
     THEN Res([dd EXCEPT !.id = <<>>], rem, Nil, call, << <<>> >>)
     ELSE Res([dd EXCEPT !.attrs =
                 [flow_log_id |-> flowLogId,
                  enable |-> IF "Enable" \in flowLogs[1].absent THEN FALSE
                             ELSE flowLogs[1].Enable]],
              rem, Nil, call, <<>>)

resourceTencentCloudVpcFlowLogConfigRead(dd, rem, rd) ==
  LET flowLogId == dd.id
      call == <<[api |-> "DescribeFlowLogs", res |-> rd]>>
      flowLogs == DescribeFlowLogs(rem, flowLogId)
  IN IF rd # "ok" THEN Res(dd, rem, rd, call, <<>>)
     ELSE IF Len(flowLogs) < 1
     THEN Res([dd EXCEPT !.id = <<>>], rem, Nil, call, << <<>> >>)
     ELSE Res([dd EXCEPT !.attrs =
                 [flow_log_id |-> flowLogId,
                  enable |-> IF "Enable" \in flowLogs[1].absent THEN dd.attrs.enable
                             ELSE flowLogs[1].Enable]],
              rem, Nil, call, <<>>)

\* Update that calls EnableFlowLogs whatever enable says
FlUpdateAlwaysEnables(dd, rem, outs, rd) ==
  LET flowLogId == dd.id
      r == RetryWrite(outs)
      calls == CallLog("EnableFlowLogs", outs, r.n)
  IN IF r.err # Nil THEN Res(dd, rem, r.err, calls, <<>>)
     ELSE ThenRead(resourceTencentCloudVpcFlowLogConfigRead(
                     dd, EnableFlowLogs(rem, flowLogId), rd), calls, <<>>)

resourceTencentCloudVpcFlowLogConfigUpdate(dd, rem, outs, rd) ==
  LET flowLogId == dd.id
      enable == dd.attrs.enable
      r == RetryWrite(outs)
      calls == CallLog(IF enable THEN "EnableFlowLogs" ELSE "DisableFlowLogs", outs, r.n)
      rem1 == IF enable THEN EnableFlowLogs(rem, flowLogId)
              ELSE DisableFlowLogs(rem, flowLogId)
  IN IF r.err # Nil THEN Res(dd, rem, r.err, calls, <<>>)
     ELSE ThenRead(resourceTencentCloudVpcFlowLogConfigRead(dd, rem1, rd), calls, <<>>)

\* Create that stores the identifier once its Update has returned nil
FlCreateSetIdLast(dd, rem, outs, rd) ==
  LET flowLogId == dd.attrs.flow_log_id
      r == resourceTencentCloudVpcFlowLogConfigUpdate(
             [dd EXCEPT !.id = flowLogId], rem, outs, rd)
  IN IF r.err # Nil THEN Res(dd, r.remote, r.err, r.calls, <<>>)
     ELSE Res(r.d, r.remote, Nil, r.calls, r.setIds \o <<flowLogId>>)

resourceTencentCloudVpcFlowLogConfigCreate(dd, rem, outs, rd) ==
  LET flowLogId == dd.attrs.flow_log_id
  IN ThenRead(resourceTencentCloudVpcFlowLogConfigUpdate(
                [dd EXCEPT !.id = flowLogId], rem, outs, rd),
              <<>>, <<flowLogId>>)

\* Delete that switches the flow log off at the service
FlDeleteDisables(dd, rem) ==
  Res(dd, [rem EXCEPT !.Enable = FALSE], Nil, <<>>, <<>>)

resourceTencentCloudVpcFlowLogConfigDelete(dd, rem) ==
  Res(dd, rem, Nil, <<>>, <<>>)

(***************************************************************************)
(* tencentcloud_dts_sync_job_pause_operation                               *)
(***************************************************************************)
DtsZero == [job_id |-> <<>>]

\* job_id is required, but the empty string is a value a configuration can
\* give it
DtsConfigs == [job_id : FieldStrs \cup {<<>>}]

\* the remote effect of a successful PauseSyncJob
PauseSyncJob(rem, req) ==
  IF rem.exists /\ req.hasJobId /\ rem.JobId = req.JobId
  THEN [rem EXCEPT !.Status = "Paused"] ELSE rem

\* conf.WaitForState() of BuildStateChangeConf(..., {"Paused"}, ...): nil
\* once the job is seen paused, an error when the wait times out
WaitOuts == {"ok", "timeout"}

\* Create that never stores an identifier
DtsCreateNoSetId(dd, rem, outs, wait) ==
  LET r == RetryWrite(outs)
      calls == CallLog("PauseSyncJob", outs, r.n)
      hasJobId == dd.attrs.job_id # <<>>
      request == [hasJobId |-> hasJobId, JobId |-> dd.attrs.job_id]
      wcall == <<[api |-> "DescribeSyncJobs", res |-> wait]>>
  IN IF r.err # Nil THEN Res(dd, rem, r.err, calls, <<>>)
     ELSE IF wait # "ok"
     THEN Res(dd, PauseSyncJob(rem, request), wait, calls \o wcall, <<>>)
     ELSE Res(dd, PauseSyncJob(rem, request), Nil, calls \o wcall, <<>>)

resourceTencentCloudDtsSyncJobPauseOperationRead(dd, rem) ==
  Res(dd, rem, Nil, <<>>, <<>>)

\* Create that stores the identifier before it asks for the pause
DtsCreateSetIdFirst(dd, rem, outs, wait) ==
  LET jobId == dd.attrs.job_id
      request == [hasJobId |-> jobId # <<>>, JobId |-> jobId]
      r == RetryWrite(outs)
      calls == CallLog("PauseSyncJob", outs, r.n)
      wcall == <<[api |-> "DescribeSyncJobs", res |-> wait]>>
      rem1 == PauseSyncJob(rem, request)
      d1 == [dd EXCEPT !.id = jobId]
  IN IF r.err # Nil THEN Res(d1, rem, r.err, calls, <<jobId>>)
     ELSE IF wait # "ok" THEN Res(d1, rem1, wait, calls \o wcall, <<jobId>>)
     ELSE Res(d1, rem1, Nil, calls \o wcall, <<jobId>>)

\* d.GetOk("job_id") is not ok for the empty string: the request then has
\* no JobId and jobId stays ""
resourceTencentCloudDtsSyncJobPauseOperationCreate(dd, rem, outs, wait) ==
  LET hasJobId == dd.attrs.job_id # <<>>
      jobId == IF hasJobId THEN dd.attrs.job_id ELSE <<>>
      request == [hasJobId |-> hasJobId, JobId |-> jobId]
      r == RetryWrite(outs)
      calls == CallLog("PauseSyncJob", outs, r.n)
      wcall == <<[api |-> "DescribeSyncJobs", res |-> wait]>>
      rem1 == PauseSyncJob(rem, request)
      d1 == [dd EXCEPT !.id = jobId]
  IN IF r.err # Nil THEN Res(dd, rem, r.err, calls, <<>>)
     ELSE IF wait # "ok" THEN Res(d1, rem1, wait, calls \o wcall, <<jobId>>)
     ELSE ThenRead(resourceTencentCloudDtsSyncJobPauseOperationRead(d1, rem1),
                   calls \o wcall, <<jobId>>)

resourceTencentCloudDtsSyncJobPauseOperationDelete(dd, rem) ==
  Res(dd, rem, Nil, <<>>, <<>>)

(***************************************************************************)
(* The data sources scf_request_status, waf_ports and                      *)
(* cynosdb_backup_download_url.  A data source has a Read only; the host   *)
(* hands it the configuration with the computed attributes unset.  A       *)
(* query is retried like a write: retryError decides.                      *)
(***************************************************************************)
\* m[k] = v when the configuration gives v a value other than the zero z
\* (d.GetOk)
PutIfSet(m, k, v, z) == IF v = z THEN m ELSE Put(m, k, v)

\* writeToFile(output, ...): the outcomes of writing the result file
FileOuts == {"ok", "write failed"}

ScfZero == [function_name |-> "", function_request_id |-> "", namespace |-> "",
            start_time |-> "", end_time |-> "", result_output_file |-> "",
            data |-> <<>>]

ScfConfigs == [function_name : {"f1"}, function_request_id : {"r1"},
               namespace : {"", "default"}, start_time : {""}, end_time : {""},
               result_output_file : {"", "out"}, data : {<<>>}]

ScfParamMap(attrs) ==
  PutIfSet(PutIfSet(PutIfSet(PutIfSet(PutIfSet(<<>>,
    "FunctionName", attrs.function_name, ""),
    "FunctionRequestId", attrs.function_request_id, ""),
    "Namespace", attrs.namespace, ""),
    "StartTime", attrs.start_time, ""),
    "EndTime", attrs.end_time, "")

\* ScfService.DescribeScfRequestStatusByFilter(paramMap): the status records
\* the API has for the request, nil when it has none
DescribeScfRequestStatusByFilter(rem, paramMap) == rem.records

\* the block Read builds for one record (lines 164-194)
requestStatusMap(rs) ==
  PutUnlessNil(PutUnlessNil(PutUnlessNil(PutUnlessNil(
  PutUnlessNil(PutUnlessNil(PutUnlessNil(PutUnlessNil(<<>>,
    "function_name", rs, "FunctionName", rs.FunctionName),
    "ret_msg", rs, "RetMsg", rs.RetMsg),
    "request_id", rs, "RequestId", rs.RequestId),
    "start_time", rs, "StartTime", rs.StartTime),
    "ret_code", rs, "RetCode", rs.RetCode),
    "duration", rs, "Duration", rs.Duration),
    "mem_usage", rs, "MemUsage", rs.MemUsage),
    "retry_num", rs, "RetryNum", rs.RetryNum)

\* the value the SDK stores for the list of blocks handed to d.Set("data")
StoredData(tmpList) ==
  [k \in 1..Len(tmpList) |->
     [function_name |-> KeyOr(tmpList[k], "function_name", ""),
      ret_msg |-> KeyOr(tmpList[k], "ret_msg", ""),
      request_id |-> KeyOr(tmpList[k], "request_id", ""),
      start_time |-> KeyOr(tmpList[k], "start_time", ""),
      ret_code |-> KeyOr(tmpList[k], "ret_code", 0),
      duration |-> KeyOr(tmpList[k], "duration", 0),
      mem_usage |-> KeyOr(tmpList[k], "mem_usage", 0),
      retry_num |-> KeyOr(tmpList[k], "retry_num", 0)]]

\* helper.DataResourceIdsHash(ids): a value computed from the ids alone
DataResourceIdsHash(ids) == <<"h">> \o ids

\* the tail of a data source Read: the result file is written when
\* result_output_file names one
WriteResultFile(dd, rem, calls, file) ==
  IF dd.attrs.result_output_file # "" /\ file # "ok"
  THEN Res(dd, rem, file, calls, <<dd.id>>)
  ELSE Res(dd, rem, Nil, calls, <<dd.id>>)

dataSourceTencentCloudScfRequestStatusRead(dd, rem, outs, file) ==
  LET paramMap == ScfParamMap(dd.attrs)
      r == RetryWrite(outs)
      calls == CallLog("GetRequestStatus", outs, r.n)
      data == DescribeScfRequestStatusByFilter(rem, paramMap)
      tmpList == [k \in 1..Len(data) |-> requestStatusMap(data[k])]
      ids == [k \in 1..Len(data) |-> data[k].FunctionName]
  IN IF r.err # Nil THEN Res(dd, rem, r.err, calls, <<>>)
     ELSE IF \E k \in 1..Len(data) : "FunctionName" \in data[k].absent
     THEN Res(dd, rem, Panic, calls, <<>>)
     ELSE LET d1 == IF data = <<>> THEN dd
                    ELSE [dd EXCEPT !.attrs.data = StoredData(tmpList)]
          IN WriteResultFile([d1 EXCEPT !.id = DataResourceIdsHash(ids)],
                             rem, calls, file)

WafZero == [edition |-> "", instance_id |-> "", result_output_file |-> "",
            http_ports |-> {}, https_ports |-> {}]

WafConfigs == [edition : {"", "clb-waf"}, instance_id : {"", "waf-1"},
               result_output_file : {"", "out"},
               http_ports : {{}}, https_ports : {{}}]

WafParamMap(attrs) ==
  PutIfSet(PutIfSet(<<>>, "Edition", attrs.edition, ""),
           "InstanceID", attrs.instance_id, "")

\* WafService.DescribeWafPortsByFilter(paramMap)
DescribeWafPortsByFilter(rem, paramMap) == rem

\* *ports.RequestId is read under no nil check
dataSourceTencentCloudWafPortsRead(dd, rem, outs, file) ==
  LET paramMap == WafParamMap(dd.attrs)
      r == RetryWrite(outs)
      calls == CallLog("DescribePorts", outs, r.n)
      ports == DescribeWafPortsByFilter(rem, paramMap)
      a1 == IF "HttpPorts" \in ports.absent THEN dd.attrs
            ELSE [dd.attrs EXCEPT !.http_ports = ports.HttpPorts]
      a2 == IF "HttpsPorts" \in ports.absent THEN a1
            ELSE [a1 EXCEPT !.https_ports = ports.HttpsPorts]
  IN IF r.err # Nil THEN Res(dd, rem, r.err, calls, <<>>)
     ELSE IF "RequestId" \in ports.absent
     THEN Res([dd EXCEPT !.attrs = a2], rem, Panic, calls, <<>>)
     ELSE WriteResultFile([id |-> ports.RequestId, attrs |-> a2], rem, calls, file)

CdbZero == [cluster_id |-> <<>>, backup_id |-> 0, download_url |-> "",
            result_output_file |-> ""]

CdbConfigs == [cluster_id : FieldStrs \cup {<<>>}, backup_id : {0, 1},
               download_url : {""}, result_output_file : {"", "out"}]

\* v of d.GetOk("backup_id") is never nil: BackupId is always given
CdbParamMap(attrs) ==
  Put(PutIfSet(<<>>, "ClusterId", attrs.cluster_id, <<>>),
      "BackupId", attrs.backup_id)

\* whether the API has the backup the parameters name
CdbHasBackup(rem, paramMap) ==
  /\ "ClusterId" \in DOMAIN paramMap
  /\ rem.ClusterId = paramMap["ClusterId"] /\ rem.BackupId = paramMap["BackupId"]

\* CynosdbService.DescribeCynosdbBackupDownloadUrlById(paramMap)
DescribeCynosdbBackupDownloadUrlById(rem, paramMap) == rem

\* Read that has the backup made before it asks for its address
CdbReadCreatesBackup(dd, rem, outs, file) ==
  LET clusterId == dd.attrs.cluster_id
      r == RetryWrite(outs)
      calls == CallLog("CreateBackup", outs, r.n)
      made == [rem EXCEPT !.BackupId = dd.attrs.backup_id]
      a1 == IF "DownloadUrl" \in rem.absent THEN dd.attrs
            ELSE [dd.attrs EXCEPT !.download_url = rem.DownloadUrl]
  IN IF r.err # Nil THEN Res(dd, rem, r.err, calls, <<>>)
     ELSE WriteResultFile([id |-> clusterId, attrs |-> a1], made, calls, file)

dataSourceTencentCloudCynosdbBackupDownloadUrlRead(dd, rem, outs, file) ==
  LET paramMap == CdbParamMap(dd.attrs)
      clusterId == dd.attrs.cluster_id
      r == RetryWrite(outs)
      calls == CallLog("DescribeBackupDownloadURL", outs, r.n)
      downloadUrl == DescribeCynosdbBackupDownloadUrlById(rem, paramMap)
      a1 == IF "DownloadUrl" \in downloadUrl.absent THEN dd.attrs
            ELSE [dd.attrs EXCEPT !.download_url = downloadUrl.DownloadUrl]
  IN IF r.err # Nil THEN Res(dd, rem, r.err, calls, <<>>)
     ELSE WriteResultFile([id |-> clusterId, attrs |-> a1], rem, calls, file)

(***************************************************************************)
(* The host: it hands a handler the stored state (and, for Create and      *)
(* Update, the planned configuration) and stores what the handler leaves.  *)
(***************************************************************************)
Kinds == {"ck", "sj", "ct", "fl", "dts", "scf"}

DataKinds == {"scf", "waf", "cdb"}

Zero(k) ==
  CASE k = "ck" -> CkZero [] k = "sj" -> SjZero [] k = "ct" -> CtZero [] k = "fl" -> FlZero
    [] k = "dts" -> DtsZero [] k = "scf" -> ScfZero [] k = "waf" -> WafZero
    [] k = "cdb" -> CdbZero

NoResource(k) == [id |-> <<>>, attrs |-> Zero(k)]

\* an empty identifier means the resource is gone from the state
HostStore(k, dd) == IF dd.id = <<>> THEN NoResource(k) ELSE dd

NoOp == [name |-> "none", err |-> Nil, calls |-> <<>>, idIn |-> <<>>,
         in |-> <<>>, changed |-> {}, setIds |-> <<>>]

\* the state after a handler invocation; a crashed handler stores nothing
Finish(name, dIn, old, r) ==
  /\ d' = IF r.err = Panic THEN d ELSE HostStore(kind, r.d)
  /\ remote' = r.remote
  /\ op' = [name |-> name, err |-> r.err, calls |-> r.calls, idIn |-> dIn.id,
            in |-> dIn.attrs,
            changed |-> {k \in DOMAIN old : HasChange(old, dIn.attrs, k)},
            setIds |-> r.setIds]
  /\ UNCHANGED kind

\* no handler is running and the last result has been taken
Idle == op.name = "none"

\* a successful Delete removes the resource from the state
Deleted(k, r) == IF r.err = Nil THEN [r EXCEPT !.d = NoResource(k)] ELSE r

\* answers are drawn for the calls a handler gets to make: none when it
\* returns before its first call, no query answer when its write failed
WritesFor(probe, S) == IF probe.calls = <<>> THEN {AllOk} ELSE S

\* the remote API answers a write that names an object it does not have
\* with an error: the attempt sequences in which no attempt succeeds
Rejected(S) == {o \in S : \A k \in 1..MaxAttempts : o[k] # "ok"}

\* the answers to the writes of an operation whose target exists or not
AnswersFor(exists, S) == IF exists THEN S ELSE Rejected(S)

FlExists(id) == DescribeFlowLogs(remote, id) # <<>>

CtInstanceOf(id) == IF Len(Split(id)) = 2 THEN Split(id)[1] ELSE <<>>

CtExists(id) == ~DescribeSqlserverConfigDatabaseCTById(remote, CtInstanceOf(id)).isNil

DtsExists(jobId) == remote.exists /\ remote.JobId = jobId
PollsFor(w) == IF w.err = Nil THEN PollAttempts ELSE {AllSuccess}
ReadsFor(w) == IF w.err = Nil THEN RdOuts ELSE {"ok"}

\* Create and Update of clickhouse_account_permission with a planned
\* configuration out of cfgs
CkCreateOf(cfgs) ==
  /\ Idle /\ kind = "ck" /\ d.id = <<>>
  /\ \E cfg \in cfgs, outs \in WriteAttempts :
       \E rd \in ReadsFor(RetryWrite(outs)) :
         LET dIn == [id |-> <<>>, attrs |-> cfg]
         IN Finish("create", dIn, CkZero,
                   resourceTencentCloudClickhouseAccountPermissionCreate(dIn, remote, outs, rd))

CkRead ==
  /\ Idle /\ kind = "ck" /\ d.id # <<>>
  /\ \E rd \in RdOuts :
       Finish("read", d, d.attrs,
              resourceTencentCloudClickhouseAccountPermissionRead(d, remote, rd))

CkUpdateOf(cfgs) ==
  /\ Idle /\ kind = "ck" /\ d.id # <<>>
  /\ \E cfg \in cfgs :
       LET dIn == [id |-> d.id, attrs |-> cfg]
           H(outs, rd) == resourceTencentCloudClickhouseAccountPermissionUpdate(
                            dIn, d.attrs, remote, outs, rd)
       IN \E outs \in WritesFor(H(AllOk, "ok"), WriteAttempts) :
            \E rd \in ReadsFor(RetryWrite(outs)) :
              Finish("update", dIn, d.attrs, H(outs, rd))

CkCreate == CkCreateOf(CkConfigs)

CkUpdate == CkUpdateOf(CkConfigs)

CkDelete ==
  /\ Idle /\ kind = "ck" /\ d.id # <<>>
  /\ \E rd \in RdOuts :
       Finish("delete", d, d.attrs,
              Deleted("ck", resourceTencentCloudClickhouseAccountPermissionDelete(d, remote, rd)))

SjCreate ==
  /\ Idle /\ kind = "sj" /\ d.id = <<>>
  /\ \E cfg \in SjConfigs, outs \in WriteAttempts :
       \E rd \in ReadsFor(RetryWrite(outs)) :
         LET dIn == [id |-> <<>>, attrs |-> cfg]
         IN Finish("create", dIn, SjZero,
                   resourceTencentCloudMonitorTmpScrapeJobCreate(dIn, remote, outs, rd))

SjRead ==
  /\ Idle /\ kind = "sj" /\ d.id # <<>>
  /\ \E rd \in RdOuts :
       Finish("read", d, d.attrs,
              resourceTencentCloudMonitorTmpScrapeJobRead(d, remote, rd))

SjUpdate ==
  /\ Idle /\ kind = "sj" /\ d.id # <<>>
  /\ \E cfg \in SjConfigs :
       LET dIn == [id |-> d.id, attrs |-> cfg]
           H(outs, rd) == resourceTencentCloudMonitorTmpScrapeJobUpdate(
                            dIn, d.attrs, remote, outs, rd)
       IN \E outs \in WritesFor(H(AllOk, "ok"), WriteAttempts) :
            \E rd \in ReadsFor(RetryWrite(outs)) :
              Finish("update", dIn, d.attrs, H(outs, rd))

SjDelete ==
  /\ Idle /\ kind = "sj" /\ d.id # <<>>
  /\ \E rd \in RdOuts :
       Finish("delete", d, d.attrs,
              Deleted("sj", resourceTencentCloudMonitorTmpScrapeJobDelete(d, remote, rd)))

CtCreate ==
  /\ Idle /\ kind = "ct" /\ d.id = <<>>
  /\ \E cfg \in CtConfigs :
       LET dIn == [id |-> <<>>, attrs |-> cfg]
           H(outs, pouts, rd) == resourceTencentCloudSqlserverConfigDatabaseCTCreate(
                                   dIn, remote, outs, pouts, rd)
       IN \E outs \in WritesFor(H(AllOk, AllSuccess, "ok"),
                                AnswersFor(CtExists(Join(<<cfg.instance_id, cfg.db_name>>)),
                                           ModifyAttempts)) :
            \E pouts \in PollsFor(RetryModify(outs)) :
              \E rd \in ReadsFor(RetryPoll(pouts)) :
                Finish("create", dIn, CtZero, H(outs, pouts, rd))

CtRead ==
  /\ Idle /\ kind = "ct" /\ d.id # <<>>
  /\ \E rd \in RdOuts :
       Finish("read", d, d.attrs,
              resourceTencentCloudSqlserverConfigDatabaseCTRead(d, remote, rd))

CtUpdate ==
  /\ Idle /\ kind = "ct" /\ d.id # <<>>
  /\ \E cfg \in CtConfigs :
       LET dIn == [id |-> d.id, attrs |-> cfg]
           H(outs, pouts, rd) == resourceTencentCloudSqlserverConfigDatabaseCTUpdate(
                                   dIn, remote, outs, pouts, rd)
       IN \E outs \in WritesFor(H(AllOk, AllSuccess, "ok"),
                                AnswersFor(CtExists(d.id), ModifyAttempts)) :
            \E pouts \in PollsFor(RetryModify(outs)) :
              \E rd \in ReadsFor(RetryPoll(pouts)) :
                Finish("update", dIn, d.attrs, H(outs, pouts, rd))

CtDelete ==
  /\ Idle /\ kind = "ct" /\ d.id # <<>>
  /\ Finish("delete", d, d.attrs,
            Deleted("ct", resourceTencentCloudSqlserverConfigDatabaseCTDelete(d, remote)))

FlCreate ==
  /\ Idle /\ kind = "fl" /\ d.id = <<>>
  /\ \E cfg \in FlConfigs :
       \E outs \in AnswersFor(FlExists(cfg.flow_log_id), WriteAttempts) :
       \E rd \in ReadsFor(RetryWrite(outs)) :
         LET dIn == [id |-> <<>>, attrs |-> cfg]
         IN Finish("create", dIn, FlZero,
                   resourceTencentCloudVpcFlowLogConfigCreate(dIn, remote, outs, rd))

FlRead ==
  /\ Idle /\ kind = "fl" /\ d.id # <<>>
  /\ \E rd \in RdOuts :
       Finish("read", d, d.attrs,
              resourceTencentCloudVpcFlowLogConfigRead(d, remote, rd))

FlUpdate ==
  /\ Idle /\ kind = "fl" /\ d.id # <<>>
  /\ \E cfg \in FlConfigs :
       \E outs \in AnswersFor(FlExists(d.id), WriteAttempts) :
       \E rd \in ReadsFor(RetryWrite(outs)) :
         LET dIn == [id |-> d.id, attrs |-> cfg]
         IN Finish("update", dIn, d.attrs,
                   resourceTencentCloudVpcFlowLogConfigUpdate(dIn, remote, outs, rd))

FlDelete ==
  /\ Idle /\ kind = "fl" /\ d.id # <<>>
  /\ Finish("delete", d, d.attrs,
            Deleted("fl", resourceTencentCloudVpcFlowLogConfigDelete(d, remote)))

DtsCreate ==
  /\ Idle /\ kind = "dts" /\ d.id = <<>>
  /\ \E cfg \in DtsConfigs :
       \E outs \in AnswersFor(DtsExists(cfg.job_id), WriteAttempts) :
       \E wait \in IF RetryWrite(outs).err = Nil THEN WaitOuts ELSE {"ok"} :
         LET dIn == [id |-> <<>>, attrs |-> cfg]
         IN Finish("create", dIn, DtsZero,
                   resourceTencentCloudDtsSyncJobPauseOperationCreate(dIn, remote, outs, wait))

DtsRead ==
  /\ Idle /\ kind = "dts" /\ d.id # <<>>
  /\ Finish("read", d, d.attrs,
            resourceTencentCloudDtsSyncJobPauseOperationRead(d, remote))

DtsDelete ==
  /\ Idle /\ kind = "dts" /\ d.id # <<>>
  /\ Finish("delete", d, d.attrs,
            Deleted("dts", resourceTencentCloudDtsSyncJobPauseOperationDelete(d, remote)))

\* the answers to the file write, drawn when the handler gets to write
FilesFor(probe) ==
  IF probe.err = Nil /\ probe.d.attrs.result_output_file # "" THEN FileOuts ELSE {"ok"}

ScfRead ==
  /\ Idle /\ kind = "scf"
  /\ \E cfg \in ScfConfigs, outs \in WriteAttempts :
       LET dIn == [id |-> <<>>, attrs |-> cfg]
           H(file) == dataSourceTencentCloudScfRequestStatusRead(dIn, remote, outs, file)
       IN \E file \in FilesFor(H("ok")) : Finish("read", dIn, cfg, H(file))

WafRead ==
  /\ Idle /\ kind = "waf"
  /\ \E cfg \in WafConfigs, outs \in WriteAttempts :
       LET dIn == [id |-> <<>>, attrs |-> cfg]
           H(file) == dataSourceTencentCloudWafPortsRead(dIn, remote, outs, file)
       IN \E file \in FilesFor(H("ok")) : Finish("read", dIn, cfg, H(file))

CdbRead ==
  /\ Idle /\ kind = "cdb"
  /\ \E cfg \in CdbConfigs :
       \E outs \in AnswersFor(CdbHasBackup(remote, CdbParamMap(cfg)), WriteAttempts) :
         LET dIn == [id |-> <<>>, attrs |-> cfg]
             H(file) == dataSourceTencentCloudCynosdbBackupDownloadUrlRead(
                          dIn, remote, outs, file)
         IN \E file \in FilesFor(H("ok")) : Finish("read", dIn, cfg, H(file))

\* the identifier under which a resource of kind k manages the remote object
RemoteIds(k, rem) ==
  IF ~rem.exists THEN {}
  ELSE CASE k = "ck" -> {Join(<<rem.InstanceId, rem.Cluster, rem.UserName>>)}
         [] k = "sj" -> {Join(<<rem.JobId, rem.InstanceId, rem.AgentId>>)}
         [] k = "ct" -> {Join(<<rem.InstanceId, rem.Name>>)}
         [] k = "fl" -> {rem.FlowLogId}
         [] OTHER -> {}

\* schema.ImportStatePassthrough: the state holds the identifier the user
\* supplied and nothing else
ImportState ==
  /\ Idle /\ d.id = <<>> /\ kind \notin {"dts"} \cup DataKinds
  /\ \E id \in IdStrs \cup RemoteIds(kind, remote) :
       d' = [id |-> id, attrs |-> Zero(kind)]
  /\ UNCHANGED <<kind, remote, op>>

\* the remote object is removed behind the provider's back
RemoteGone ==
  /\ Idle /\ remote.exists /\ kind \notin DataKinds
  /\ remote' = None
  /\ UNCHANGED <<kind, d, op>>

\* the host takes the handler's result; the next operation can start
Return ==
  /\ ~Idle
  /\ op' = NoOp
  /\ UNCHANGED <<kind, d, remote>>

\* the remote objects that exist before the provider manages anything: a
\* database of a SQL Server instance, a flow log, a scrape job, a sync job,
\* the permission of a clickhouse account;
\* absent names the optional fields the API leaves nil in its response
ScfRecord(name, nil) ==
  [FunctionName |-> name, RetMsg |-> "done", RequestId |-> "r1", StartTime |-> "t1",
   RetCode |-> 1, Duration |-> 2, MemUsage |-> 3, RetryNum |-> 1, absent |-> nil]

ScfRecordLists ==
  {<<>>,
   <<ScfRecord("f1", {})>>,
   <<ScfRecord("f1", {"RetMsg", "Duration"}), ScfRecord("f2", {})>>,
   <<ScfRecord("f2", {"RequestId", "StartTime", "RetCode", "MemUsage", "RetryNum"}),
     ScfRecord("f1", {})>>,
   <<ScfRecord("f1", {"FunctionName"})>>}

InitRemotes(k) ==
  CASE k = "ct" -> {[exists |-> TRUE, InstanceId |-> i, Name |-> n,
                     IsDbChainingOn |-> c, RetentionPeriod |-> <<"3">>] :
                      i \in {<<"a">>}, n \in {<<"a">>, <<"b">>}, c \in {"0", "1"}}
    [] k = "fl" -> {[exists |-> TRUE, FlowLogId |-> f, Enable |-> e, absent |-> n] :
                      f \in FieldStrs, e \in BOOLEAN, n \in {{}, {"Enable"}}}
    [] k = "sj" -> {[exists |-> TRUE, JobId |-> <<"a">>, InstanceId |-> <<"a">>,
                     AgentId |-> <<"a">>, Config |-> "c1", absent |-> n] :
                      n \in SUBSET {"AgentId", "Config"}}
    [] k = "dts" -> {[exists |-> TRUE, JobId |-> j, Status |-> "Running"] :
                       j \in FieldStrs}
    [] k = "ck" -> {[exists |-> TRUE, InstanceId |-> <<"a">>, Cluster |-> <<"a">>,
                     UserName |-> <<"a">>, AllDatabase |-> TRUE,
                     GlobalPrivileges |-> {"SELECT"},
                     DatabasePrivilegeList |-> <<DatabasePrivilegeInfo(
                        [database_name |-> "db1", database_privileges |-> {"ALTER"},
                         table_privilege_list |-> <<>>])>>,
                     absent |-> n] :
                      n \in {{}, {"InstanceId", "Cluster", "UserName"},
                             {"AllDatabase", "GlobalPrivileges", "DatabasePrivilegeList"}}}
    [] k = "scf" -> {[exists |-> TRUE, records |-> l] : l \in ScfRecordLists}
    [] k = "waf" -> {[exists |-> TRUE, HttpPorts |-> {"80"}, HttpsPorts |-> {"443"},
                      RequestId |-> <<"r">>, absent |-> n] :
                       n \in {{}, {"HttpPorts"}, {"HttpsPorts"}, {"RequestId"}}}
    [] k = "cdb" -> {[exists |-> TRUE, ClusterId |-> <<"a">>, BackupId |-> 1,
                      DownloadUrl |-> "u", absent |-> n] :
                       n \in {{}, {"DownloadUrl"}}}
    [] OTHER -> {}

\* a data source queries an API that always answers; a resource may find
\* nothing to manage
RemotesAtStart(k) ==
  IF k \in DataKinds THEN InitRemotes(k) ELSE {None} \cup InitRemotes(k)

Init ==
  /\ kind \in Kinds
  /\ d = NoResource(kind)
  /\ remote \in RemotesAtStart(kind)
  /\ op = NoOp

Next ==
  \/ CkCreate \/ CkRead \/ CkUpdate \/ CkDelete
  \/ SjCreate \/ SjRead \/ SjUpdate \/ SjDelete
  \/ CtCreate \/ CtRead \/ CtUpdate \/ CtDelete
  \/ FlCreate \/ FlRead \/ FlUpdate \/ FlDelete
  \/ DtsCreate \/ DtsRead \/ DtsDelete
  \/ ScfRead
  \/ ImportState
  \/ RemoteGone
  \/ Return

Spec == Init /\ [][Next]_vars

\* the data sources alone
DataInit ==
  /\ kind \in DataKinds
  /\ d = NoResource(kind)
  /\ remote \in RemotesAtStart(kind)
  /\ op = NoOp

DataNext == ScfRead \/ WafRead \/ CdbRead \/ Return

SpecData == DataInit /\ [][DataNext]_vars

(***************************************************************************)
(* The privileges of one clickhouse account: the identifying fields are    *)
(* fixed and the configurations and the remote permissions differ in what  *)
(* they grant.                                                             *)
(***************************************************************************)
PrivAccount == <<"a">>

PrivTables == <<[table_name |-> "t1", table_privileges |-> {"SELECT"}],
                [table_name |-> "t2", table_privileges |-> {"SELECT", "ALTER"}]>>

PrivDbLists ==
  {<<>>,
   <<[database_name |-> "db1", database_privileges |-> {}, table_privilege_list |-> <<>>]>>,
   <<[database_name |-> "db1", database_privileges |-> {"ALTER"},
      table_privilege_list |-> PrivTables]>>}

CkPrivConfigs ==
  [instance_id : {PrivAccount}, cluster : {PrivAccount}, user_name : {PrivAccount},
   all_database : BOOLEAN, global_privileges : {{}, {"SELECT"}},
   database_privilege_list : PrivDbLists]

\* the top-level response fields of which the API may leave one nil
PrivNilFields == {{}} \cup {{f} : f \in {"InstanceId", "Cluster", "UserName",
                                          "AllDatabase", "GlobalPrivileges",
                                          "DatabasePrivilegeList"}}

\* the permissions an account can have before the provider manages it
PrivRemotes ==
  {[r EXCEPT !.absent = @ \cup n] :
     r \in {ModifyUserNewPrivilege(None, CkRequest(c.instance_id, c.cluster, c.user_name,
                                                   c, TRUE, TRUE)) : c \in CkPrivConfigs},
     n \in PrivNilFields}

PrivCreate == CkCreateOf(CkPrivConfigs)

PrivUpdate == CkUpdateOf(CkPrivConfigs)

PrivInit ==
  /\ kind = "ck"
  /\ d = NoResource("ck")
  /\ remote \in {None} \cup PrivRemotes
  /\ op = NoOp

PrivNext ==
  \/ PrivCreate \/ CkRead \/ PrivUpdate \/ CkDelete
  \/ ImportState
  \/ RemoteGone
  \/ Return

SpecPriv == PrivInit /\ [][PrivNext]_vars

(***************************************************************************)
(* One Update of sqlserver_config_database_ct, an API call at a time.  op  *)
(* holds the handler's position: the loop it is in (pc), the attempts the  *)
(* loop has made (n), the last answer, and the error it returned.          *)
(***************************************************************************)
\* a budget that is never spent
BudgetNeverSpent(n) == FALSE

\* resource.Retry: after attempt n the time budget has no room for another
BudgetSpent(n) == n >= MaxAttempts

\* what resource.Retry does with the value attempt n of the closure
\* returned: return nil, return the error, or call the closure again
RetryStep(ret, n) ==
  IF ret.kind = "nil" THEN "return nil"
  ELSE IF ret.kind = "fatal" THEN "return error"
  ELSE IF BudgetSpent(n) THEN "return error"
  ELSE "again"

\* the count of one more attempt; it stops at the budget
OneMore(n) == IF n < MaxAttempts THEN n + 1 ELSE n

UpdOp(pc, n, last, err) ==
  [name |-> "update", pc |-> pc, n |-> n, last |-> last, err |-> err, in |-> op.in]

UpdRequest ==
  [ModifyType |-> op.in.modify_type, ChangeRetentionDay |-> op.in.change_retention_day,
   InstanceId |-> Split(d.id)[1], DBNames |-> <<Split(d.id)[2]>>]

\* the identifier check at the head of Update
UpdStart ==
  /\ op.pc = "start"
  /\ op' = IF Len(Split(d.id)) # 2 THEN UpdOp("done", 0, "", "id is broken")
           ELSE UpdOp("modify", 0, "", Nil)
  /\ UNCHANGED <<kind, d, remote>>

\* one ModifyDatabaseCT attempt of the first retry loop
UpdModify ==
  /\ op.pc = "modify"
  /\ \E out \in IF CtExists(d.id) THEN ModifyOuts ELSE ModifyOuts \ {"ok"} :
       LET ret == modifyAttempt(out)
           n == OneMore(op.n)
           step == RetryStep(ret, n)
       IN op' = IF step = "return nil" THEN UpdOp("poll", 0, out, Nil)
                ELSE IF step = "return error" THEN UpdOp("done", n, out, ret.err)
                ELSE UpdOp("modify", n, out, Nil)
  /\ UNCHANGED <<kind, d, remote>>

\* one DescribeFlowStatus attempt of the second retry loop; the flow that
\* reports success has changed the database
UpdPoll ==
  /\ op.pc = "poll"
  /\ \E out \in PollOuts :
       LET ret == pollAttempt(out)
           n == OneMore(op.n)
           step == RetryStep(ret, n)
       IN /\ op' = IF step = "return nil" THEN UpdOp("read", n, out, Nil)
                   ELSE IF step = "return error" THEN UpdOp("done", n, out, ret.err)
                   ELSE UpdOp("poll", n, out, Nil)
          /\ remote' = IF step = "return nil" THEN ModifyDatabaseCT(remote, UpdRequest)
                       ELSE remote
  /\ UNCHANGED <<kind, d>>

\* the Read that Update ends with
UpdRead ==
  /\ op.pc = "read"
  /\ \E rd \in RdOuts :
       LET r == resourceTencentCloudSqlserverConfigDatabaseCTRead(
                  [id |-> d.id, attrs |-> op.in], remote, rd)
       IN /\ d' = HostStore("ct", r.d)
          /\ op' = UpdOp("done", op.n, op.last, r.err)
  /\ UNCHANGED <<kind, remote>>

\* the host starts the next Update once one has returned
UpdAgain ==
  /\ op.pc = "done" /\ d.id # <<>>
  /\ \E cfg \in CtConfigs : op' = [UpdOp("start", 0, "", Nil) EXCEPT !.in = cfg]
  /\ UNCHANGED <<kind, d, remote>>

PollInit ==
  /\ kind = "ct"
  /\ \E id \in IdStrs \cup {<<"a", FILED_SP, "a">>} : d = [id |-> id, attrs |-> CtZero]
  /\ remote \in RemotesAtStart("ct")
  /\ \E cfg \in CtConfigs :
       op = [name |-> "update", pc |-> "start", n |-> 0, last |-> "", err |-> Nil,
             in |-> cfg]

PollNext == UpdStart \/ UpdModify \/ UpdPoll \/ UpdRead \/ UpdAgain

\* the handler's goroutine keeps running and every API call returns: a
\* step that can be taken is taken
SpecPoll == PollInit /\ [][PollNext]_vars /\ WF_vars(UpdStart \/ UpdModify \/ UpdPoll \/ UpdRead)

(***************************************************************************)
(* Two vpc_flow_log_config instances whose operations the host runs in     *)
(* parallel, an API call at a time.  d and op are per instance; remote     *)
(* maps a flow log id to the flow log.  op[p] holds the handler's position *)
(* and what it was handed: the resource data (dIn), the flow log as it was *)
(* when the operation started (rem0) and the answers it got.               *)
(***************************************************************************)
Procs == {1, 2}

\* the flow log each instance names
ParId(p) == IF p = 1 THEN <<"a">> ELSE <<"b">>

\* a handler that reads the identifier of the first instance's handle
flowLogIdShared(p) == op[1].dIn.id

\* flowLogId := d.Id(), the handle being the one the handler was handed
flowLogIdOf(p) == op[p].dIn.id

\* the host hands instance p's handle to a handler
ParStart(p) ==
  /\ op[p].pc = "idle"
  /\ \E name \in IF d[p].id = <<>> THEN {"create"} ELSE {"update", "read"} :
       \E enable \in IF name = "read" THEN {d[p].attrs.enable} ELSE BOOLEAN :
         LET cfg == [flow_log_id |-> ParId(p), enable |-> enable]
             dIn == IF name = "read" THEN d[p]
                    ELSE [id |-> IF name = "create" THEN cfg.flow_log_id ELSE d[p].id,
                          attrs |-> cfg]
         IN op' = [op EXCEPT ![p] =
                     [name |-> name, pc |-> IF name = "read" THEN "read" ELSE "write",
                      n |-> 0, outs |-> <<>>, rd |-> "ok", err |-> Nil,
                      dIn |-> dIn, rem0 |-> remote[ParId(p)]]]
  /\ UNCHANGED <<kind, d, remote>>

\* one EnableFlowLogs / DisableFlowLogs attempt of instance p's retry loop;
\* a handler that returns the error leaves the handle as it was handed
ParWrite(p) ==
  /\ op[p].pc = "write"
  /\ LET flowLogId == flowLogIdOf(p)
         enable == op[p].dIn.attrs.enable
     IN \E out \in IF remote[flowLogId].exists THEN WriteOuts ELSE ApiErrs :
          LET n == op[p].n + 1
              step == RetryStep(writeAttempt(out), n)
          IN /\ op' = [op EXCEPT ![p].n = n, ![p].outs = Append(@, out),
                                 ![p].pc = IF step = "return nil" THEN "read"
                                           ELSE IF step = "again" THEN "write"
                                           ELSE "done",
                                 ![p].err = IF step = "return error" THEN out ELSE Nil]
             /\ remote' = IF out # "ok" THEN remote
                          ELSE [remote EXCEPT ![flowLogId] =
                                  IF enable THEN EnableFlowLogs(@, flowLogId)
                                  ELSE DisableFlowLogs(@, flowLogId)]
             /\ d' = IF step = "return error"
                     THEN [d EXCEPT ![p] = HostStore("fl", op[p].dIn)] ELSE d
  /\ UNCHANGED kind

\* the DescribeFlowLogs query of instance p's Read and what Read stores
ParRead(p) ==
  /\ op[p].pc = "read"
  /\ \E rd \in RdOuts :
       LET flowLogId == flowLogIdOf(p)
           r == resourceTencentCloudVpcFlowLogConfigRead(
                  [op[p].dIn EXCEPT !.id = flowLogId], remote[flowLogId], rd)
       IN /\ d' = [d EXCEPT ![p] = HostStore("fl", r.d)]
          /\ op' = [op EXCEPT ![p].pc = "done", ![p].rd = rd, ![p].err = r.err]
  /\ UNCHANGED <<kind, remote>>

\* the host takes the result of instance p's operation
ParReturn(p) ==
  /\ op[p].pc = "done"
  /\ op' = [op EXCEPT ![p] = [@ EXCEPT !.name = "none", !.pc = "idle"]]
  /\ UNCHANGED <<kind, d, remote>>

ParFlowLogs ==
  {None} \cup {[exists |-> TRUE, FlowLogId |-> <<>>, Enable |-> e, absent |-> n] :
                 e \in BOOLEAN, n \in {{}, {"Enable"}}}

ParInit ==
  /\ kind = "fl"
  /\ d = [p \in Procs |-> [id |-> ParId(p), attrs |-> [flow_log_id |-> ParId(p),
                                                       enable |-> FALSE]]]
  /\ \E f \in [Procs -> ParFlowLogs] :
       remote = [x \in {ParId(p) : p \in Procs} |->
                   LET o == f[CHOOSE p \in Procs : ParId(p) = x]
                   IN IF o.exists THEN [o EXCEPT !.FlowLogId = x] ELSE o]
  /\ op = [p \in Procs |->
             [name |-> "none", pc |-> "idle", n |-> 0, outs |-> <<>>, rd |-> "ok",
              err |-> Nil, dIn |-> [id |-> ParId(p), attrs |-> FlZero], rem0 |-> None]]

ParNext == \E p \in Procs : ParStart(p) \/ ParWrite(p) \/ ParRead(p) \/ ParReturn(p)

SpecPar == ParInit /\ [][ParNext]_vars

(***************************************************************************)
(* Properties                                                              *)
(***************************************************************************)
\* the query of a Read was made and answered without error
Queried(api) == op.calls = <<[api |-> api, res |-> "ok"]>>

CkMissing(id) ==
  /\ Len(Split(id)) = 3
  /\ ~DescribeCdwchAccountPermission(remote, Split(id)[1], Split(id)[2], Split(id)[3]).exists

\* C1: a Read of clickhouse_account_permission or vpc_flow_log_config whose
\* query finds no remote object for the identifier (nil / an empty list, no
\* error) sets the identifier to the empty string and returns no error.
C1_ReadOfMissingClearsId ==
  /\ (kind = "ck" /\ op.name = "read" /\ Queried("DescribeCdwchAccountPermission")
        /\ CkMissing(op.idIn))
       => (op.err = Nil /\ op.setIds = << <<>> >> /\ d.id = <<>>)
  /\ (kind = "fl" /\ op.name = "read" /\ Queried("DescribeFlowLogs")
        /\ DescribeFlowLogs(remote, op.idIn) = <<>>)
       => (op.err = Nil /\ op.setIds = << <<>> >> /\ d.id = <<>>)

C1_Witness ==
  /\ kind = "fl" /\ op.name = "read" /\ Queried("DescribeFlowLogs")
  /\ DescribeFlowLogs(remote, op.idIn) = <<>>
  /\ op.idIn = <<"a">> /\ d.id = <<>> /\ op.err = Nil

\* C2: a Read of monitor_tmp_scrape_job whose query finds no job for the
\* identifier clears the identifier and returns no error.
C2_ScrapeJobReadOfMissing ==
  (kind = "sj" /\ op.name = "read" /\ Queried("DescribePrometheusScrapeJobs")
     /\ Len(Split(op.idIn)) = 3 /\ ~SjMatches(remote, Split(op.idIn)))
    => (op.err = Nil /\ d.id = <<>>)

\* the names of the databases the remote API lists for an instance
DbNames(instanceId) ==
  LET l == DescribeSqlserverConfigDatabaseCTById(remote, instanceId).items
  IN {l[k].Name : k \in 1..Len(l)}

\* C3: a Read of sqlserver_config_database_ct whose database (the second
\* identifier component) is not among the databases listed for the instance
\* clears the identifier and returns no error.
C3_ReadOfMissingDatabase ==
  (kind = "ct" /\ op.name = "read" /\ Queried("DescribeDatabasesNormal")
     /\ Len(Split(op.idIn)) = 2
     /\ Split(op.idIn)[2] \notin DbNames(Split(op.idIn)[1]))
    => (op.err = Nil /\ d.id = <<>>)

\* the handler returned an error value (it neither succeeded nor crashed)
ReturnedError == op.err \notin {Nil, Panic}

\* C4: an Update of clickhouse_account_permission (instance_id, cluster,
\* user_name) or monitor_tmp_scrape_job (instance_id, agent_id) in which one
\* of these fields has changed returns an error and makes no remote call.
C4_ImmutableChangeRejected ==
  /\ (kind = "ck" /\ op.name = "update"
        /\ op.changed \cap {"instance_id", "cluster", "user_name"} # {})
       => (ReturnedError /\ op.calls = <<>>)
  /\ (kind = "sj" /\ op.name = "update"
        /\ op.changed \cap {"instance_id", "agent_id"} # {})
       => (ReturnedError /\ op.calls = <<>>)

\* C5: an Update of sqlserver_config_database_ct (instance_id, db_name) or
\* vpc_flow_log_config (flow_log_id) in which a field the identifier was
\* built from has changed returns an error and makes no remote call.
C5_IdentifierFieldChangeRejected ==
  /\ (kind = "ct" /\ op.name = "update"
        /\ op.changed \cap {"instance_id", "db_name"} # {})
       => (ReturnedError /\ op.calls = <<>>)
  /\ (kind = "fl" /\ op.name = "update" /\ "flow_log_id" \in op.changed)
       => (ReturnedError /\ op.calls = <<>>)

\* the handler left the resource data as it was handed it
StateUntouched == d = [id |-> op.idIn, attrs |-> op.in] /\ op.setIds = <<>>

\* C6: Read, Update and Delete of clickhouse_account_permission (3
\* components) and Read and Update of sqlserver_config_database_ct (2
\* components), handed an identifier that does not split into exactly that
\* many components, return an error, make no remote call and leave the
\* resource state as it was.
C6_BrokenIdRejected ==
  /\ (kind = "ck" /\ op.name \in {"read", "update", "delete"}
        /\ Len(Split(op.idIn)) # 3)
       => (ReturnedError /\ op.calls = <<>> /\ StateUntouched)
  /\ (kind = "ct" /\ op.name \in {"read", "update"} /\ Len(Split(op.idIn)) # 2)
       => (ReturnedError /\ op.calls = <<>> /\ StateUntouched)

C6_Witness ==
  /\ kind = "ck" /\ op.name = "delete" /\ Len(Split(op.idIn)) = 4
  /\ op.err = "id is broken" /\ d.id = op.idIn

\* C7: Read, Update and Delete of monitor_tmp_scrape_job, handed an
\* identifier that does not split into exactly 3 components, fail with an
\* error value: they neither crash nor go on to the remote API.
C7_ScrapeJobBrokenIdRejected ==
  (kind = "sj" /\ op.name \in {"read", "update", "delete"}
     /\ Len(Split(op.idIn)) # 3)
    => (ReturnedError /\ op.calls = <<>>)

\* C8: the identifier Create stores is instance_id#cluster#user_name
\* (instance_id#db_name for sqlserver_config_database_ct), and whenever
\* Create accepts the values (returns no error) the identifier it leaves
\* splits into exactly these values, in this order.
C8_IdentifierRoundTrip ==
  /\ (kind = "ck" /\ op.name = "create" /\ op.setIds # <<>>)
       => op.setIds[1] = Join(<<op.in.instance_id, op.in.cluster, op.in.user_name>>)
  /\ (kind = "ck" /\ op.name = "create" /\ op.err = Nil)
       => (/\ d.id = op.setIds[1]
           /\ Split(d.id) = <<op.in.instance_id, op.in.cluster, op.in.user_name>>)
  /\ (kind = "ct" /\ op.name = "create")
       => (op.setIds # <<>> /\ op.setIds[1] = Join(<<op.in.instance_id, op.in.db_name>>))
  /\ (kind = "ct" /\ op.name = "create" /\ op.err = Nil /\ d.id # <<>>)
       => (/\ d.id = op.setIds[1]
           /\ Split(d.id) = <<op.in.instance_id, op.in.db_name>>)

C8_Witness ==
  /\ kind = "ck" /\ op.name = "create" /\ op.err = Nil
  /\ d.id = <<"a", FILED_SP, "a", FILED_SP, "a">>
  /\ Split(d.id) = <<op.in.instance_id, op.in.cluster, op.in.user_name>>

WriteApis == {"ModifyUserNewPrivilege", "CreatePrometheusScrapeJob",
              "UpdatePrometheusScrapeJob", "ModifyDatabaseCT",
              "EnableFlowLogs", "DisableFlowLogs"}

IsWriteCall(c) == c.api \in WriteApis

\* the attempts of the operation's retry-wrapped write, in order
Writes == SelectSeq(op.calls, IsWriteCall)

\* C9: in a retry-wrapped write, a non-retryable error ends the loop with
\* that attempt and is what the operation returns; a retryable error is
\* followed by another attempt while the budget (MaxAttempts attempts)
\* lasts; with the budget exhausted the operation returns the last error.
C9_RetryPolicy ==
  \A k \in 1..Len(Writes) :
    /\ (Writes[k].res \in ApiErrs \ RetryableErrs)
         => (/\ k = Len(Writes)
             /\ op.calls[Len(op.calls)] = Writes[k]
             /\ op.err = Writes[k].res)
    /\ (Writes[k].res \in RetryableErrs /\ k < MaxAttempts) => Len(Writes) > k
    /\ (Writes[k].res \in RetryableErrs /\ k = MaxAttempts)
         => (/\ k = Len(Writes)
             /\ op.calls[Len(op.calls)] = Writes[k]
             /\ op.err = Writes[k].res)

C9_Witness ==
  /\ kind = "sj" /\ op.name = "create" /\ Len(Writes) = MaxAttempts
  /\ Writes[1].res = "RequestLimitExceeded"
  /\ Writes[MaxAttempts].res = "ResourceInUse"
  /\ op.err = "ResourceInUse"

IsPollCall(c) == c.api = "DescribeFlowStatus"

\* the polls of the flow status the operation made, in order
Polls == SelectSeq(op.calls, IsPollCall)

IsStatus(res) == res \in PollOuts \ ApiErrs

\* C10: in Update of sqlserver_config_database_ct the poll loop ends in
\* success (and the follow-up Read runs) only on the success status; the
\* running status is followed by another poll while the budget lasts; any
\* other status ends the loop at once with an error that Update returns.
C10_PollClassification ==
  (kind = "ct" /\ op.name \in {"update", "create"}) =>
    /\ (\E k \in 1..Len(op.calls) : op.calls[k].api = "DescribeDatabasesNormal")
         => (/\ Polls # <<>>
             /\ IsStatus(Polls[Len(Polls)].res)
             /\ StatusOf(Polls[Len(Polls)].res) = SQLSERVER_TASK_SUCCESS)
    /\ \A k \in 1..Len(Polls) :
         IsStatus(Polls[k].res) =>
           /\ (StatusOf(Polls[k].res) = SQLSERVER_TASK_SUCCESS) => k = Len(Polls)
           /\ (StatusOf(Polls[k].res) = SQLSERVER_TASK_RUNNING /\ k < MaxAttempts)
                => Len(Polls) > k
           /\ (StatusOf(Polls[k].res) \notin {SQLSERVER_TASK_SUCCESS, SQLSERVER_TASK_RUNNING})
                => (/\ k = Len(Polls)
                    /\ op.calls[Len(op.calls)] = Polls[k]
                    /\ ReturnedError
                    /\ op.err \notin ApiErrs)

C10_Witness ==
  /\ kind = "ct" /\ op.name = "update" /\ Len(Polls) = 2
  /\ Polls[1].res = "status1" /\ Polls[2].res = "status2"
  /\ op.err = "sqlserver configDatabaseCT status is fail"

IsCtOp == kind = "ct" /\ op.name \in {"update", "create"}

\* the positions of the calls of an API in the operation's call log
CallsOf(api) == {k \in 1..Len(op.calls) : op.calls[k].api = api}

\* C19: in Update and Create of sqlserver_config_database_ct a flow status
\* is polled only after a ModifyDatabaseCT call of the same operation
\* succeeded, and for the flow id that call returned; the follow-up Read
\* queries only after a poll saw the success status; when the operation
\* fails before the Read it returns the error and leaves the attributes as
\* it was handed them.
C19_CallOrder ==
  IsCtOp =>
    /\ \A k \in CallsOf("DescribeFlowStatus") :
         \E j \in CallsOf("ModifyDatabaseCT") :
           j < k /\ op.calls[j].res = "ok" /\ op.calls[j].flow = op.calls[k].flow
    /\ \A k \in CallsOf("DescribeDatabasesNormal") :
         \E j \in CallsOf("DescribeFlowStatus") :
           /\ j < k /\ IsStatus(op.calls[j].res)
           /\ StatusOf(op.calls[j].res) = SQLSERVER_TASK_SUCCESS
    /\ (CallsOf("DescribeDatabasesNormal") = {})
         => (op.err # Nil /\ d.attrs = op.in)

C19_Witness ==
  /\ IsCtOp /\ op.name = "update" /\ op.err = Nil /\ Len(op.calls) = 5
  /\ op.calls[1].res = "RequestLimitExceeded"
  /\ op.calls[2].res = "ok" /\ op.calls[2].flow = FlowIdOf(2)
  /\ op.calls[3].res = "status1" /\ op.calls[3].flow = FlowIdOf(2)
  /\ op.calls[4].res = "status0" /\ op.calls[4].flow = FlowIdOf(2)
  /\ op.calls[5].api = "DescribeDatabasesNormal"

\* C20: when the write of Create fails in clickhouse_account_permission or
\* monitor_tmp_scrape_job (its last attempt ended in an error: a
\* non-retryable one, or a retryable one with the budget used up), Create
\* returns that error, no identifier is stored and no follow-up Read is made.
C20_CreateWriteFailure ==
  (kind \in {"ck", "sj"} /\ op.name = "create" /\ Writes # <<>>
     /\ Writes[Len(Writes)].res \in ApiErrs)
    => (/\ op.err = Writes[Len(Writes)].res
        /\ op.setIds = <<>>
        /\ d.id = <<>>
        /\ op.calls = Writes)

C20_Witness ==
  /\ kind = "ck" /\ op.name = "create" /\ Len(op.calls) = MaxAttempts
  /\ op.calls[1].res = "ResourceInUse"
  /\ op.calls[MaxAttempts].res = "InvalidParameter"
  /\ op.err = "InvalidParameter" /\ d.id = <<>>

SjReadByJobId ==
  /\ kind = "sj" /\ op.name = "read"
  /\ Len(Split(op.idIn)) = 1
  /\ remote.exists /\ remote.JobId = op.idIn

\* C14: monitor_tmp_scrape_job can be imported by the job id alone: a Read
\* of a state that holds only the job id of an existing job completes
\* without error and fills instance_id, agent_id and config from the job.
C14_ImportByJobId ==
  SjReadByJobId
    => /\ op.err = Nil
       /\ d.id = op.idIn
       /\ d.attrs.instance_id = remote.InstanceId
       /\ "AgentId" \notin remote.absent => d.attrs.agent_id = remote.AgentId
       /\ "Config" \notin remote.absent => d.attrs.config = remote.Config

\* the Read found the remote object and returned no error
ReadFound(k, api) ==
  kind = k /\ op.name = "read" /\ Queried(api) /\ op.err = Nil /\ d.id # <<>>

\* attribute a was written from the response field f, unless f is nil, and
\* then the attribute has the value it had before the Read
WrittenUnlessNil(a, f, v) ==
  IF f \in remote.absent THEN d.attrs[a] = op.in[a] ELSE d.attrs[a] = v

\* the query of the scf_request_status Read was answered and the Read did
\* not crash
ScfAnswered ==
  /\ kind = "scf" /\ op.name = "read" /\ op.err # Panic
  /\ op.calls # <<>> /\ op.calls[Len(op.calls)].res = "ok"

\* entry k of data has attribute a from the field f of record k, unless f
\* is nil, and then the attribute is unset (z)
EntryUnlessNil(k, a, f, z) ==
  IF f \in remote.records[k].absent THEN d.attrs.data[k][a] = z
  ELSE d.attrs.data[k][a] = remote.records[k][f]

\* C15: a Read of clickhouse_account_permission, monitor_tmp_scrape_job or
\* vpc_flow_log_config, and of the scf_request_status data source, writes
\* an attribute that an optional response field backs only when the field
\* is not nil; when the field is nil the attribute keeps the value it had
\* before the Read.
C15_NilFieldsKeepPriorValue ==
  /\ ReadFound("ck", "DescribeCdwchAccountPermission")
       => /\ WrittenUnlessNil("instance_id", "InstanceId", remote.InstanceId)
          /\ WrittenUnlessNil("cluster", "Cluster", remote.Cluster)
          /\ WrittenUnlessNil("user_name", "UserName", remote.UserName)
          /\ WrittenUnlessNil("all_database", "AllDatabase", remote.AllDatabase)
          /\ WrittenUnlessNil("global_privileges", "GlobalPrivileges",
                              remote.GlobalPrivileges)
          /\ "DatabasePrivilegeList" \in remote.absent
               => d.attrs.database_privilege_list = op.in.database_privilege_list
  /\ ReadFound("sj", "DescribePrometheusScrapeJobs")
       => /\ WrittenUnlessNil("agent_id", "AgentId", remote.AgentId)
          /\ WrittenUnlessNil("config", "Config", remote.Config)
  /\ ReadFound("fl", "DescribeFlowLogs")
       => WrittenUnlessNil("enable", "Enable", remote.Enable)
  /\ ScfAnswered
       => IF remote.records = <<>> THEN d.attrs.data = op.in.data
          ELSE /\ Len(d.attrs.data) = Len(remote.records)
               /\ \A k \in 1..Len(remote.records) :
                    /\ EntryUnlessNil(k, "function_name", "FunctionName", "")
                    /\ EntryUnlessNil(k, "ret_msg", "RetMsg", "")
                    /\ EntryUnlessNil(k, "request_id", "RequestId", "")
                    /\ EntryUnlessNil(k, "start_time", "StartTime", "")
                    /\ EntryUnlessNil(k, "ret_code", "RetCode", 0)
                    /\ EntryUnlessNil(k, "duration", "Duration", 0)
                    /\ EntryUnlessNil(k, "mem_usage", "MemUsage", 0)
                    /\ EntryUnlessNil(k, "retry_num", "RetryNum", 0)

\* a flow log whose Enable the response leaves nil: the state said true,
\* the remote flag is false, and the Read left true
C15_Witness ==
  /\ ReadFound("fl", "DescribeFlowLogs")
  /\ "Enable" \in remote.absent /\ remote.Enable = FALSE
  /\ op.in.enable = TRUE /\ d.attrs.enable = TRUE

\* the remote calls a data source makes
QueryApis == {"GetRequestStatus", "DescribePorts", "DescribeBackupDownloadURL"}

\* C16: the data sources scf_request_status, waf_ports and
\* cynosdb_backup_download_url never change remote state: every remote call
\* of a Read, the retried ones included, is a query, and the remote state
\* after the Read is the remote state before it.
C16_DataSourcesReadOnly ==
  /\ [](kind \in DataKinds =>
          \A k \in 1..Len(op.calls) : op.calls[k].api \in QueryApis)
  /\ [][(kind \in DataKinds) => (remote' = remote)]_vars

\* the address of a backup, got at the second attempt
C16_Witness ==
  /\ kind = "cdb" /\ op.name = "read" /\ op.err = Nil
  /\ Len(op.calls) = 2 /\ op.calls[1].res \in RetryableErrs /\ op.calls[2].res = "ok"
  /\ d.id = <<"a">> /\ d.attrs.download_url = "u"

\* block j of the table_privilege_list the state holds for database k is
\* entry j of the response
TableBlockIs(k, j) ==
  LET t == remote.DatabasePrivilegeList[k].TablePrivilegeList[j]
      b == d.attrs.database_privilege_list[k].table_privilege_list[j]
  IN /\ b.table_name = t.TableName
     /\ b.table_privileges = t.TablePrivileges

\* C13: a Read of clickhouse_account_permission writes, for every database
\* entry of the response, a table_privilege_list of exactly one block per
\* table privilege entry, in the order of the response, each with its
\* table_name and table_privileges.
C13_TableBlocksPerEntry ==
  (ReadFound("ck", "DescribeCdwchAccountPermission")
     /\ "DatabasePrivilegeList" \notin remote.absent)
    => /\ Len(d.attrs.database_privilege_list) = Len(remote.DatabasePrivilegeList)
       /\ \A k \in 1..Len(remote.DatabasePrivilegeList) :
            "TablePrivilegeList" \notin remote.DatabasePrivilegeList[k].absent
              => /\ Len(d.attrs.database_privilege_list[k].table_privilege_list)
                      = Len(remote.DatabasePrivilegeList[k].TablePrivilegeList)
                 /\ \A j \in 1..Len(remote.DatabasePrivilegeList[k].TablePrivilegeList) :
                      TableBlockIs(k, j)

\* the state an import of the identifier yields: a Read of a state that
\* holds the identifier alone
ImportRead ==
  resourceTencentCloudClickhouseAccountPermissionRead(
    [id |-> d.id, attrs |-> CkZero], remote, "ok")

\* C12: the identifier a Create of clickhouse_account_permission leaves
\* imports to the same state: a Read of the identifier alone yields the
\* instance_id, cluster, user_name, all_database, global_privileges and
\* database_privilege_list the Create left, and changes nothing remote.
C12_ImportRoundTrip ==
  (kind = "ck" /\ op.name = "create" /\ op.err = Nil /\ d.id # <<>>)
    => /\ ImportRead.err = Nil
       /\ ImportRead.d.id = d.id
       /\ ImportRead.d.attrs = d.attrs
       /\ ImportRead.remote = remote

\* the poll loop has used its whole budget and the flow still runs
PollExhausted ==
  /\ op.n = MaxAttempts /\ op.last = "status1"
  /\ op.pc \in {"poll", "done"}

\* C18: every Update of sqlserver_config_database_ct returns: the poll of
\* the flow status ends at a status that is not the running one or when its
\* budget is used up, also when the flow reports running at every poll, and
\* with the budget used up the Update returns an error.
C18_UpdateReturns ==
  /\ [](op.pc # "done" => <>(op.pc = "done"))
  /\ [](PollExhausted => (op.pc = "done" /\ op.err \notin {Nil, Panic}))

\* the flow reported running at every poll the budget had room for
C18_Witness ==
  /\ PollExhausted /\ op.pc = "done"
  /\ op.err = "sqlserver configDatabaseCT status is running"

\* the answers instance p's retry loop got, as the attempts of one loop
AnswersOf(p) ==
  [k \in 1..MaxAttempts |-> IF k <= Len(op[p].outs) THEN op[p].outs[k] ELSE "ok"]

\* the operation of instance p run alone on the flow log as it was when the
\* operation started, with the answers the operation got
Alone(p) ==
  CASE op[p].name = "read" ->
         resourceTencentCloudVpcFlowLogConfigRead(op[p].dIn, op[p].rem0, op[p].rd)
    [] op[p].name = "update" ->
         resourceTencentCloudVpcFlowLogConfigUpdate(op[p].dIn, op[p].rem0,
                                                    AnswersOf(p), op[p].rd)
    [] op[p].name = "create" ->
         resourceTencentCloudVpcFlowLogConfigCreate(
           [op[p].dIn EXCEPT !.id = <<>>], op[p].rem0, AnswersOf(p), op[p].rd)

\* the operation of instance p has returned what it returns alone
SameAsAlone(p) ==
  /\ op[p].err = Alone(p).err
  /\ remote[ParId(p)] = Alone(p).remote
  /\ d[p] = HostStore("fl", Alone(p).d)

\* the step was none of instance p's
NotStepOf(p) == op'[p] = op[p]

\* C17: operations on independent vpc_flow_log_config instances that run in
\* parallel do not interfere: under every interleaving of their API calls
\* and retries each operation returns, and leaves in its resource state and
\* its flow log, what it does when run alone, and no step of one operation
\* changes the other instance's resource state or flow log.
C17_ParallelIndependence ==
  /\ [](\A p \in Procs : op[p].pc = "done" => SameAsAlone(p))
  /\ [][\A p \in Procs :
          NotStepOf(p) => (d'[p] = d[p] /\ remote'[ParId(p)] = remote[ParId(p)])]_vars

\* the second instance enabled its flow log at the second attempt while the
\* first was between its write and its Read
C17_Witness ==
  /\ op[1].name = "update" /\ op[1].pc = "read"
  /\ op[2].name = "update" /\ op[2].pc = "done" /\ op[2].err = Nil
  /\ Len(op[2].outs) = 2 /\ op[2].dIn.attrs.enable
  /\ remote[ParId(2)].Enable /\ ~remote[ParId(1)].Enable

\* the identifier Create builds from the configuration it was handed
BuiltId ==
  IF kind = "ct" THEN Join(<<op.in.instance_id, op.in.db_name>>)
  ELSE op.in.flow_log_id

ReadApis == {"DescribeCdwchAccountPermission", "DescribePrometheusScrapeJobs",
             "DescribeDatabasesNormal", "DescribeFlowLogs"}

\* the operation returned an error before it got to its Read
FailedBeforeRead ==
  ReturnedError /\ \A k \in 1..Len(op.calls) : op.calls[k].api \notin ReadApis

\* C21: Create of sqlserver_config_database_ct and vpc_flow_log_config
\* stores the identifier built from the configuration before any remote
\* call; when the write or the poll of the flow status fails and Create
\* returns the error, the identifier is still that value.
C21_CreateSetsIdFirst ==
  (kind \in {"ct", "fl"} /\ op.name = "create")
    => /\ op.setIds # <<>>
       /\ op.setIds[1] = BuiltId
       /\ FailedBeforeRead => (op.setIds = <<BuiltId>> /\ d.id = BuiltId)

\* the flow of a Create reported the fail status: the identifier stays
C21_Witness ==
  /\ kind = "ct" /\ op.name = "create"
  /\ Polls # <<>> /\ Polls[Len(Polls)].res = "status2"
  /\ op.err = "sqlserver configDatabaseCT status is fail"
  /\ d.id = <<"a", FILED_SP, "a">> /\ op.setIds = << <<"a", FILED_SP, "a">> >>

\* the write call the enable value of the operation asks for
FlWriteApi == IF op.in.enable THEN "EnableFlowLogs" ELSE "DisableFlowLogs"

\* C22: an Update or Create of vpc_flow_log_config makes write calls of one
\* kind only, EnableFlowLogs when enable is true and DisableFlowLogs when it
\* is false; after a successful Create or Update the enabled flag of the
\* flow log the identifier names is the enable value of that operation.
C22_OneWriteKind ==
  (kind = "fl" /\ op.name \in {"create", "update"})
    => /\ \A k \in 1..Len(Writes) : Writes[k].api = FlWriteApi
       /\ (op.err = Nil /\ d.id # <<>>)
            => /\ Writes # <<>>
               /\ DescribeFlowLogs(remote, d.id) # <<>>
               /\ remote.Enable = op.in.enable

\* an enabled flow log disabled at the second attempt of an Update
C22_Witness ==
  /\ kind = "fl" /\ op.name = "update" /\ op.err = Nil
  /\ ~op.in.enable /\ Len(Writes) = 2
  /\ Writes[1].api = "DisableFlowLogs" /\ Writes[1].res \in RetryableErrs
  /\ Writes[2].res = "ok"
  /\ remote.exists /\ ~remote.Enable /\ d.id = <<"a">>

\* call k of the operation was answered without error
CallOk(k) == op.calls[k].res = "ok"

\* C23: Create of dts_sync_job_pause_operation returns success only after a
\* PauseSyncJob call succeeded and the wait that followed saw the job
\* Paused; the identifier is set to job_id only after PauseSyncJob
\* succeeded; when the wait fails or times out Create returns that error
\* with the identifier set.
C23_PauseThenWait ==
  (kind = "dts" /\ op.name = "create")
    => /\ op.err = Nil
            => /\ \E j \in CallsOf("PauseSyncJob"), k \in CallsOf("DescribeSyncJobs") :
                    j < k /\ CallOk(j) /\ CallOk(k)
               /\ remote.exists /\ remote.Status = "Paused"
       /\ op.setIds # <<>>
            => /\ op.setIds = <<op.in.job_id>>
               /\ \E j \in CallsOf("PauseSyncJob") : CallOk(j)
       /\ \A k \in CallsOf("DescribeSyncJobs") :
            ~CallOk(k) => /\ op.err = op.calls[k].res
                          /\ op.setIds = <<op.in.job_id>>
                          /\ d.id = op.in.job_id

\* the pause went through at the second attempt and the wait timed out
C23_Witness ==
  /\ kind = "dts" /\ op.name = "create" /\ op.err = "timeout"
  /\ Len(op.calls) = 3 /\ op.calls[1].res \in RetryableErrs
  /\ op.calls[2].api = "PauseSyncJob" /\ CallOk(2)
  /\ op.calls[3].api = "DescribeSyncJobs"
  /\ d.id = <<"a">> /\ op.setIds = << <<"a">> >>

\* the write attempts of the operation that the API answered with success
OkWrites == {k \in 1..Len(Writes) : Writes[k].res = "ok"}

\* C24: within one retry-wrapped write of clickhouse_account_permission,
\* monitor_tmp_scrape_job or vpc_flow_log_config the API is called again
\* only after the attempt before returned a retryable error; the first
\* attempt answered with success is the last write call, so an operation
\* has at most one successful write call.
C24_AtMostOneSuccessfulWrite ==
  (kind \in {"ck", "sj", "fl"} /\ op.name \in {"create", "update"})
    => /\ \A k \in 2..Len(Writes) : Writes[k-1].res \in RetryableErrs
       /\ \A k \in OkWrites : k = Len(Writes)
       /\ Cardinality(OkWrites) <= 1

\* a scrape job created at the second attempt
C24_Witness ==
  /\ kind = "sj" /\ op.name = "create" /\ op.err = Nil
  /\ Len(Writes) = 2 /\ Writes[1].res \in RetryableErrs /\ OkWrites = {2}
  /\ Writes[2].api = "CreatePrometheusScrapeJob"
  /\ remote.exists

(***************************************************************************)
(* The requests of Update: one clickhouse account whose permission the     *)
(* provider creates, or finds by import, and then updates                  *)
(***************************************************************************)
ReqInit ==
  /\ kind = "ck"
  /\ d = NoResource("ck")
  /\ remote \in {None} \cup
       {ModifyUserNewPrivilege(None, CkRequest(c.instance_id, c.cluster, c.user_name,
                                               c, TRUE, TRUE)) : c \in CkPrivConfigs}
  /\ op = NoOp

ReqNext == PrivCreate \/ PrivUpdate \/ ImportState \/ Return

SpecReq == ReqInit /\ [][ReqNext]_vars

\* the DatabasePrivilegeList a request carries for the configured list
RequestListOf(list) == [k \in 1..Len(list) |-> DatabasePrivilegeInfo(list[k])]

\* request q carries field f, with value v, exactly when attribute a has
\* changed and is not the empty value z
CarriedWhenChanged(q, f, v, a, z) ==
  IF a \in op.changed /\ op.in[a] # z
  THEN f \notin q.absent /\ q[f] = v
  ELSE f \in q.absent

\* C25: the request of an Update of clickhouse_account_permission carries
\* instance id, cluster and user name from the identifier and the current
\* all_database, carries global_privileges only when that attribute changed
\* and is not empty, and database_privilege_list only when that attribute
\* changed and is not empty; an unchanged privilege attribute is left out.
C25_UpdateRequest ==
  (kind = "ck" /\ op.name = "update")
    => \A k \in 1..Len(Writes) :
         LET q == Writes[k].req
         IN /\ <<q.InstanceId, q.Cluster, q.UserName>> = Split(op.idIn)
            /\ q.AllDatabase = op.in.all_database
            /\ CarriedWhenChanged(q, "GlobalPrivileges", op.in.global_privileges,
                                  "global_privileges", {})
            /\ CarriedWhenChanged(q, "DatabasePrivilegeList",
                                  RequestListOf(op.in.database_privilege_list),
                                  "database_privilege_list", <<>>)

\* an Update that changes the global privileges and leaves a configured
\* database privilege list as it was: the request has the former only
C25_Witness ==
  /\ kind = "ck" /\ op.name = "update" /\ op.err = Nil /\ Len(Writes) = 1
  /\ op.changed = {"global_privileges"} /\ op.in.global_privileges = {"SELECT"}
  /\ op.in.database_privilege_list # <<>>
  /\ Writes[1].req.GlobalPrivileges = {"SELECT"}
  /\ Writes[1].req.absent = {"DatabasePrivilegeList"}

(***************************************************************************)
(* The resources whose Delete is empty, with the operations that bring    *)
(* their state and their remote configuration to every value a Delete can *)
(* meet                                                                    *)
(***************************************************************************)
NoDeleteKinds == {"ct", "fl", "dts"}

DelInit == Init /\ kind \in NoDeleteKinds

DelNext ==
  \/ CtCreate \/ CtDelete
  \/ FlCreate \/ FlUpdate \/ FlDelete
  \/ DtsCreate \/ DtsDelete
  \/ ImportState \/ RemoteGone \/ Return

SpecDel == DelInit /\ [][DelNext]_vars

\* a step in which the host runs Delete on one of these resources
DeleteStep == kind \in NoDeleteKinds /\ Idle /\ op'.name = "delete"

\* C26: Delete of sqlserver_config_database_ct, vpc_flow_log_config and
\* dts_sync_job_pause_operation makes no remote call and returns success for
\* every identifier, well-formed or not, and leaves the remote configuration
\* exactly as it was.
C26_DeleteIsLocal ==
  [][DeleteStep => /\ op'.calls = <<>>
                   /\ op'.err = Nil
                   /\ op'.idIn = d.id
                   /\ remote' = remote]_vars

\* Delete has returned for an identifier that does not have the two
\* components of a sqlserver_config_database_ct identifier, while the
\* database still exists at the service
C26_Witness ==
  /\ kind = "ct" /\ op.name = "delete" /\ op.err = Nil /\ op.calls = <<>>
  /\ Len(Split(op.idIn)) # 2
  /\ remote.exists

\* the attribute Read derives from the identifier, and the part of the
\* identifier it is derived from
IdAttribute ==
  IF kind = "fl" THEN d.attrs.flow_log_id ELSE d.attrs.instance_id

IdPart ==
  CASE kind = "fl" -> d.id
    [] kind = "ct" -> Split(d.id)[1]
    [] kind = "sj" -> Split(d.id)[2]

\* the last operation ran Read, and Read returned success and kept the
\* identifier
ReadKeptId ==
  /\ op.name \in {"create", "update", "read"}
  /\ op.err = Nil
  /\ d.id # <<>>

\* C27: after any sequence of Create, Update and Read, when the last Read
\* returned success and kept the identifier, the attribute derived from the
\* identifier agrees with it: flow_log_id is the identifier
\* (vpc_flow_log_config), instance_id is its first component
\* (sqlserver_config_database_ct) or its second (monitor_tmp_scrape_job),
\* whatever the configuration and the remote response hold.
C27_IdAttributeAgrees ==
  (kind \in {"fl", "ct", "sj"} /\ ReadKeptId) => IdAttribute = IdPart

\* a Read of an imported scrape job whose state had another instance_id
\* than the identifier names
C27_Witness ==
  /\ kind = "sj" /\ op.name = "read" /\ ReadKeptId
  /\ op.in.instance_id # Split(d.id)[2]
  /\ d.attrs.instance_id = Split(d.id)[2]
  /\ Split(d.id)[1] # Split(d.id)[2]

\* the query of the scf_request_status Read ended with an error, or with
\* an answer
ScfQueryFailed ==
  op.calls # <<>> /\ op.calls[Len(op.calls)].res # "ok"

ScfQueryOk ==
  op.calls # <<>> /\ op.calls[Len(op.calls)].res = "ok"

\* the function names of the records the query returned, in response order
ScfNames == [k \in 1..Len(remote.records) |-> remote.records[k].FunctionName]

\* C28: Read of the scf_request_status data source. When the query fails it
\* returns the error and writes neither the identifier nor data. When the
\* query succeeds, data holds one entry per returned record in response
\* order and the identifier, computed from the records' function names, is
\* set; it is set before the result file is written, so a failed file write
\* leaves it set, and the file is written only when result_output_file is
\* not empty.
C28_ScfRead ==
  (kind = "scf" /\ op.name = "read")
    => /\ ScfQueryFailed
            => (/\ op.err = op.calls[Len(op.calls)].res
                /\ op.setIds = <<>> /\ d.id = <<>>
                /\ d.attrs.data = op.in.data)
       /\ ScfQueryOk
            => (/\ Len(d.attrs.data) = Len(remote.records)
                /\ \A k \in 1..Len(remote.records) :
                     /\ EntryUnlessNil(k, "function_name", "FunctionName", "")
                     /\ EntryUnlessNil(k, "request_id", "RequestId", "")
                     /\ EntryUnlessNil(k, "ret_msg", "RetMsg", "")
                /\ op.setIds = <<DataResourceIdsHash(ScfNames)>>
                /\ d.id = DataResourceIdsHash(ScfNames)
                /\ op.err \in {Nil} \cup (FileOuts \ {"ok"})
                /\ op.err # Nil => op.in.result_output_file # "")

====
